---- MODULE Spec2Model ----
(***************************************************************************)
(* Template registry, cache and bootstrap orchestrator of lili-cli         *)
(* (src/lili.js): the manifest store and reconciler, the source fetcher    *)
(* and template cache, the bootstrap step runner, and the flows of the     *)
(* templates menu that drive them.                                         *)
(***************************************************************************)
EXTENDS Integers, Sequences, FiniteSets, TLC

(***************************************************************************)
(* Bounds of the model.                                                    *)
(***************************************************************************)
\* Source Fetcher invocations (copyLocalTemplate / cloneTemplateFromGitHub) in one run.
MaxFetches == 2
\* Entries of a manifest document.
MaxEntries == 2
\* Entries of bootstrap.deployCommands.
MaxDeploy == 2
\* Runs of the reconciliation (one per start of the tool).
MaxRecons == 2
\* Templates pulled into the user manifest (templatePullFlow) in one run.
MaxPulls == 1

(***************************************************************************)
(* JavaScript values: every field value is a string; the two markers stand *)
(* for an absent key and for JSON null.                                    *)
(***************************************************************************)
Undef == "<undefined>"
Null == "<null>"

\* `x || y`, `!x`: undefined, null, "" and false are falsy.
Falsy(v) == v \in {Undef, Null, "", "false"}

\* `a || b`
Or(a, b) == IF Falsy(a) THEN b ELSE a

\* `a ?? b`
Nullish(a, b) == IF a \in {Undef, Null} THEN b ELSE a

\* All sequences of at most n entries of pool
SeqsUpTo(pool, n) == UNION {[1..k -> pool] : k \in 0..n}

(***************************************************************************)
(* Manifest entries.  An entry is a record over the nine reconciled keys,  *)
(* its name, and `path` (the legacy key copyLocalTemplate and              *)
(* writeTemplateMetadata fall back to), which no reconciliation touches.   *)
(***************************************************************************)
Ent(name, title, source, repo, ref, subdir, localPath, bootstrap, path) ==
  [name |-> name, title |-> title, description |-> Undef, source |-> source,
   repo |-> repo, ref |-> ref, subdir |-> subdir, localPath |-> localPath,
   featured |-> Undef, bootstrap |-> bootstrap, path |-> path]

NoTpl == Ent("", Undef, Undef, Undef, Undef, Undef, Undef, Undef, Undef)

\* Bundled local template.
TplBasic == Ent("basic", "Basic", "local", Undef, Undef, Undef, "basic", Undef, Undef)
\* Local template whose bundled directory is not shipped.
TplGone == Ent("gone", "Gone", "LOCAL", Undef, Undef, Undef, Undef, Undef, "legacy")
\* Remote template with a subdirectory.
TplWeb == Ent("web", "Web", "remote", "acme/scaffolds", "main", "web-starter", Undef, "B1", Undef)
\* Remote template pulled by the user (templatePullFlow writes subdir: null).
TplMine == Ent("mine", "Mine", "github", "me/mine", "main", Null, Undef, Undef, Undef)
\* Remote template whose repo is not of the owner/name shape.
TplBad == Ent("bad", "Bad", "github", "not a repo", Undef, Undef, Undef, Undef, Undef)

CachePool == {TplBasic, TplGone, TplWeb, TplMine, TplBad}

\* The entries of the manifests refreshAllTemplates runs over.
BatchPool == {TplBasic, TplWeb, TplBad}

CacheNames == {t.name : t \in CachePool}

\* Directories shipped under TEMPLATES_DIR.
Bundled == {"basic"}

\* /^[A-Za-z0-9_.-]+\/[A-Za-z0-9_.-]+$/.test(repo), on the repos of the pool.
RepoShapeOk(repo) == repo \in {"acme/scaffolds", "me/mine"}

\* toLowerCase on the source values of the pool.
ToLowerCase(s) == IF s = "LOCAL" THEN "local" ELSE s

(***************************************************************************)
(* The file system under TEMPLATE_CACHE_DIR.  A file's content is tagged   *)
(* with the number of the fetch that wrote it (0: no such file); `meta` is *)
(* the tag of the .lili-template.json sidecar.                             *)
(***************************************************************************)
FileNames == {"a.txt", "b.txt"}

\* The trees a fetch can read: a.txt is always there, b.txt comes and goes upstream.
Trees == {{"a.txt"}, {"a.txt", "b.txt"}}

NoDir == [exists |-> FALSE, files |-> [f \in FileNames |-> 0], meta |-> 0]

\* The directory a fetch numbered gen produces from the tree it read, nothing else.
FreshDir(tree, gen) ==
  [exists |-> TRUE, files |-> [f \in FileNames |-> IF f \in tree THEN gen ELSE 0], meta |-> gen]

VARIABLES
  cache,      \* cache[name]: the directory TEMPLATE_CACHE_DIR/<name>
  nfetch,     \* Source Fetcher invocations so far
  pc,         \* pc[p]: where invocation p of the tool stands
  call,       \* call[p]: the ensureTemplateCache call of p
  batch,      \* batch[p]: the refreshAllTemplates call of p
  userFile,   \* USER_TEMPLATE_MANIFEST
  baseFile,   \* TEMPLATE_MANIFEST_FILE
  recon,      \* the last reconcileTemplateManifestWithDefaults call
  boot,       \* the bootstrapTemplateDestination call
  menu,       \* menu[p]: templatesMenu and templatePullFlow of p
  feat,       \* feat[p]: featuredTemplatePull of p
  work        \* the workspace destination directory of the featured flow

cacheVars == <<cache, nfetch, pc, call, batch>>
manVars == <<userFile, baseFile, recon>>
bootVars == <<boot>>
flowVars == <<menu, feat, work>>
vars == <<cache, nfetch, pc, call, batch, userFile, baseFile, recon, boot, menu, feat, work>>

Procs == {1, 2}

(***************************************************************************)
(* Template Cache and Source Fetcher.                                      *)
(***************************************************************************)
NoError == [wrap |-> FALSE, msg |-> ""]

\* new Error(msg)
Err(msg) == [wrap |-> FALSE, msg |-> msg]

\* new Error(`Failed to download template from GitHub: ${error.message}`)
DownloadErr(e) == [wrap |-> TRUE, msg |-> e.msg]

IdleCall ==
  [tpl |-> NoTpl, force |-> FALSE, caller |-> "none", before |-> NoDir,
   fetchesBefore |-> 0, hit |-> FALSE, removed |-> FALSE, gen |-> 0, tree |-> {},
   result |-> "none", path |-> "", error |-> NoError, tmp |-> "none", raced |-> FALSE]

IdleBatch == [active |-> FALSE, force |-> FALSE, templates |-> <<>>, i |-> 0,
              results |-> <<>>, returned |-> FALSE]

\* path.join(TEMPLATE_CACHE_DIR, template.name), relative to the cache root
TargetDir(t) == t.name

\* CacheHit with the force test inverted
CacheHit_Inverted(force, dir) == force /\ dir.exists

\* !force && (await fs.pathExists(targetDir))
CacheHit(force, dir) == ~force /\ dir.exists

\* What fs.remove(targetDir).catch(() => null) can leave behind: nothing, or, when
\* the removal fails, the directory with any part of its content.
RemoveOutcomes(dir) ==
  {NoDir} \cup
  (IF dir.exists
   THEN {[exists |-> TRUE,
          files |-> [f \in FileNames |-> IF f \in keep THEN dir.files[f] ELSE 0],
          meta |-> IF keepMeta THEN dir.meta ELSE 0] :
           keep \in SUBSET FileNames, keepMeta \in BOOLEAN}
   ELSE {})

\* fs.copy(sourceDir, destination, {overwrite: true, recursive: true}) of the files
\* `done`: the destination is created, same-named files are overwritten, the others stay.
Overlay(dir, done, gen) ==
  [exists |-> TRUE,
   files |-> [f \in FileNames |-> IF f \in done THEN gen ELSE dir.files[f]],
   meta |-> dir.meta]

\* CopyOutcomes of a copy that can resolve having written only part of the tree
CopyOutcomes_ResolvesPartial(dir, tree, gen) ==
  {<<TRUE, Overlay(dir, done, gen)>> : done \in SUBSET tree} \cup {<<FALSE, dir>>}

\* The outcomes of fs.copy: <<TRUE, dir>> when it resolves, <<FALSE, dir>> when it
\* rejects before writing anything or after writing part of the tree.
CopyOutcomes(dir, tree, gen) ==
  {<<TRUE, Overlay(dir, tree, gen)>>, <<FALSE, dir>>} \cup
  {<<FALSE, Overlay(dir, done, gen)>> : done \in (SUBSET tree) \ {tree}}

\* fs.writeJSON(path.join(targetDir, '.lili-template.json'), meta)
WithMeta(dir, gen) == [dir EXCEPT !.meta = gen]

\* template.localPath || template.path || template.name
LocalPathOf(t) == Or(Or(t.localPath, t.path), t.name)

\* (template.source || '').toLowerCase() === 'local'
IsLocal(t) == ToLowerCase(Or(t.source, "")) = "local"

\* Invocation q is between the removal and the end of its ensureTemplateCache call.
InFetch(q) == pc[q] \notin {"idle", "remove", "done"}

\* The calls, c, once invocation p has changed (when changed) its cache directory: the
\* other invocations that are fetching into the same directory have been raced
Disturbed(p, c, changed) ==
  [q \in Procs |->
     IF changed /\ q # p /\ InFetch(q) /\ c[q].tpl.name = c[p].tpl.name
     THEN [c[q] EXCEPT !.raced = TRUE]
     ELSE c[q]]

\* The call of invocation p ends by throwing e.
Throw(p, e) ==
  /\ call' = [call EXCEPT ![p].result = "error", ![p].error = e]
  /\ pc' = [pc EXCEPT ![p] = "done"]

\* ensureTemplateCache, up to the cache-hit return
EnsureBegin(p, t, force, caller) ==
  /\ pc[p] = "idle"
  /\ LET dir == cache[t.name]
         c0 == [IdleCall EXCEPT !.tpl = t, !.force = force, !.caller = caller,
                                !.before = dir, !.fetchesBefore = nfetch]
     IN IF CacheHit(force, dir)
        THEN /\ call' = [call EXCEPT ![p] = [c0 EXCEPT !.hit = TRUE, !.result = "ok",
                                                        !.path = TargetDir(t)]]
             /\ pc' = [pc EXCEPT ![p] = "done"]
        ELSE /\ call' = [call EXCEPT ![p] = c0]
             /\ pc' = [pc EXCEPT ![p] = "remove"]
  /\ UNCHANGED <<cache, nfetch>>

\* await fs.remove(targetDir).catch(() => null); await fs.ensureDir(path.dirname(targetDir))
\* (the cache root exists: initConfig creates it)
EnsureRemove(p) ==
  /\ pc[p] = "remove"
  /\ \E d \in RemoveOutcomes(cache[call[p].tpl.name]) :
       /\ cache' = [cache EXCEPT ![call[p].tpl.name] = d]
       /\ call' = Disturbed(p, [call EXCEPT ![p].removed = ~d.exists], d # cache[call[p].tpl.name])
  /\ pc' = [pc EXCEPT ![p] = IF IsLocal(call[p].tpl) THEN "localCheck" ELSE "cloneCheck"]
  /\ UNCHANGED <<nfetch, batch>>
  /\ UNCHANGED <<manVars, bootVars, flowVars>>

\* copyLocalTemplate: the source directory must exist
LocalCheck(p) ==
  /\ pc[p] = "localCheck"
  /\ nfetch' = nfetch + 1
  /\ IF LocalPathOf(call[p].tpl) \notin Bundled
     THEN Throw(p, Err("Local template not found"))
     ELSE /\ call' = [call EXCEPT ![p].gen = nfetch + 1]
          /\ pc' = [pc EXCEPT ![p] = "localCopy"]
  /\ UNCHANGED <<cache, batch>>
  /\ UNCHANGED <<manVars, bootVars, flowVars>>

\* copyLocalTemplate: fs.copy into the cache directory
LocalCopy(p) ==
  /\ pc[p] = "localCopy"
  /\ \E tree \in Trees :
       \E o \in CopyOutcomes(cache[call[p].tpl.name], tree, call[p].gen) :
         /\ cache' = [cache EXCEPT ![call[p].tpl.name] = o[2]]
         /\ IF o[1]
            THEN /\ call' = Disturbed(p, [call EXCEPT ![p].tree = tree], TRUE)
                 /\ pc' = [pc EXCEPT ![p] = "meta"]
            ELSE /\ call' = Disturbed(p, [call EXCEPT ![p].tree = tree, ![p].result = "error",
                                                      ![p].error = Err("copy failed")],
                                      o[2] # cache[call[p].tpl.name])
                 /\ pc' = [pc EXCEPT ![p] = "done"]
  /\ UNCHANGED <<nfetch, batch>>
  /\ UNCHANGED <<manVars, bootVars, flowVars>>

\* cloneTemplateFromGitHub: the repo check and fs.mkdtemp
CloneCheck(p) ==
  /\ pc[p] = "cloneCheck"
  /\ nfetch' = nfetch + 1
  /\ IF Falsy(call[p].tpl.repo) \/ ~RepoShapeOk(call[p].tpl.repo)
     THEN Throw(p, Err("Invalid GitHub repository identifier"))
     ELSE \/ /\ call' = [call EXCEPT ![p].gen = nfetch + 1, ![p].tmp = "made"]
             /\ pc' = [pc EXCEPT ![p] = "clone"]
          \/ Throw(p, Err("mkdtemp failed"))
  /\ UNCHANGED <<cache, batch>>
  /\ UNCHANGED <<manVars, bootVars, flowVars>>

\* await execAsync(cloneCmd), then the subdirectory check
CloneExec(p) ==
  /\ pc[p] = "clone"
  /\ \/ \E hasSubdir \in BOOLEAN :
          IF Falsy(call[p].tpl.subdir) \/ hasSubdir
          THEN /\ pc' = [pc EXCEPT ![p] = "cloneCopy"]
               /\ UNCHANGED call
          ELSE /\ call' = [call EXCEPT ![p].error =
                              DownloadErr(Err("Subdirectory not found in cloned repository"))]
               /\ pc' = [pc EXCEPT ![p] = "cleanup"]
     \/ /\ call' = [call EXCEPT ![p].error = DownloadErr(Err("git clone failed"))]
        /\ pc' = [pc EXCEPT ![p] = "cleanup"]
  /\ UNCHANGED <<cache, nfetch, batch>>
  /\ UNCHANGED <<manVars, bootVars, flowVars>>

\* cloneTemplateFromGitHub: fs.copy of the effective root into the cache directory
CloneCopy(p) ==
  /\ pc[p] = "cloneCopy"
  /\ \E tree \in Trees :
       \E o \in CopyOutcomes(cache[call[p].tpl.name], tree, call[p].gen) :
         /\ cache' = [cache EXCEPT ![call[p].tpl.name] = o[2]]
         /\ call' = Disturbed(p, [call EXCEPT ![p].tree = tree,
                                                 ![p].error = IF o[1] THEN NoError
                                                              ELSE DownloadErr(Err("copy failed"))],
                               o[2] # cache[call[p].tpl.name])
  /\ pc' = [pc EXCEPT ![p] = "cleanup"]
  /\ UNCHANGED <<nfetch, batch>>
  /\ UNCHANGED <<manVars, bootVars, flowVars>>

\* CloneCleanup whose removal is not caught: a failing fs.remove(tmpRoot) becomes the
\* error of the call
CloneCleanup_MasksError(p) ==
  /\ pc[p] = "cleanup"
  /\ \E left \in {"removed", "leaked"} :
       IF call[p].error = NoError /\ left = "removed"
       THEN /\ call' = [call EXCEPT ![p].tmp = left]
            /\ pc' = [pc EXCEPT ![p] = "meta"]
       ELSE /\ call' = [call EXCEPT ![p].tmp = left, ![p].result = "error",
                                    ![p].error = IF left = "leaked" THEN Err("remove failed")
                                                 ELSE call[p].error]
            /\ pc' = [pc EXCEPT ![p] = "done"]
  /\ UNCHANGED <<cache, nfetch, batch>>
  /\ UNCHANGED <<manVars, bootVars, flowVars>>

\* finally { await fs.remove(tmpRoot).catch(() => null) }, then the pending throw
CloneCleanup(p) ==
  /\ pc[p] = "cleanup"
  /\ \E left \in {"removed", "leaked"} :
       IF call[p].error = NoError
       THEN /\ call' = [call EXCEPT ![p].tmp = left]
            /\ pc' = [pc EXCEPT ![p] = "meta"]
       ELSE /\ call' = [call EXCEPT ![p].tmp = left, ![p].result = "error"]
            /\ pc' = [pc EXCEPT ![p] = "done"]
  /\ UNCHANGED <<cache, nfetch, batch>>
  /\ UNCHANGED <<manVars, bootVars, flowVars>>

\* writeTemplateMetadata(destination, template), then return targetDir
WriteMeta(p) ==
  /\ pc[p] = "meta"
  /\ \/ /\ cache' = [cache EXCEPT ![call[p].tpl.name] = WithMeta(@, call[p].gen)]
        /\ call' = Disturbed(p, [call EXCEPT ![p].result = "ok",
                                             ![p].path = TargetDir(call[p].tpl)], TRUE)
        /\ pc' = [pc EXCEPT ![p] = "done"]
     \/ /\ Throw(p, Err("metadata write failed"))
        /\ UNCHANGED cache
  /\ UNCHANGED <<nfetch, batch>>
  /\ UNCHANGED <<manVars, bootVars, flowVars>>

\* One step of a running ensureTemplateCache call
EnsureStep(p) ==
  \/ EnsureRemove(p)
  \/ LocalCheck(p)
  \/ LocalCopy(p)
  \/ CloneCheck(p)
  \/ CloneExec(p)
  \/ CloneCopy(p)
  \/ CloneCleanup(p)
  \/ WriteMeta(p)

\* A flow of the interactive layer calls ensureTemplateCache(template, {force})
EnsureCall(p) ==
  /\ ~batch[p].active
  /\ nfetch < MaxFetches
  /\ \E t \in CachePool, force \in BOOLEAN : EnsureBegin(p, t, force, "direct")
  /\ UNCHANGED batch
  /\ UNCHANGED <<manVars, bootVars, flowVars>>

\* The caller takes the result (or catches the error)
EnsureReturn(p) ==
  /\ pc[p] = "done"
  /\ call[p].caller = "direct"
  /\ pc' = [pc EXCEPT ![p] = "idle"]
  /\ call' = [call EXCEPT ![p] = IdleCall]
  /\ UNCHANGED <<cache, nfetch, batch>>
  /\ UNCHANGED <<manVars, bootVars, flowVars>>

(***************************************************************************)
(* Manifest Store.  A manifest file is missing, unparseable ("corrupt") or *)
(* a JSON document; `arr` tells whether its `templates` is an array.       *)
(***************************************************************************)
\* A document without a `version` key
NoVersion == -1

MissingFile == [state |-> "missing", version |-> NoVersion, arr |-> FALSE, templates |-> <<>>]

CorruptFile == [state |-> "corrupt", version |-> NoVersion, arr |-> FALSE, templates |-> <<>>]

Doc(version, templates) == [state |-> "ok", version |-> version, arr |-> TRUE, templates |-> templates]

\* manifest.version ?? 1
VersionOr1(v) == IF v = NoVersion THEN 1 ELSE v

\* A file holding the JSON value null
NullFile == [state |-> "null", version |-> NoVersion, arr |-> FALSE, templates |-> <<>>]

\* A file holding a JSON number, string or boolean
PrimitiveFile == [state |-> "primitive", version |-> NoVersion, arr |-> FALSE, templates |-> <<>>]

\* A document with neither a version nor a templates array ({} or a JSON array)
BareDoc == [state |-> "ok", version |-> NoVersion, arr |-> FALSE, templates |-> <<>>]

\* { version: 1, templates: [] }
EmptyManifest == [version |-> 1, templates |-> <<>>]

\* fs.readJSON(USER_TEMPLATE_MANIFEST): rejects when the file is missing or is not JSON
ReadJSONThrows(file) == file.state \in {"missing", "corrupt"}

\* The body of the try on the value read: `manifest.templates` of null is a TypeError,
\* and so is, in module code, the assignment of a property on a primitive
CoerceThrows(file) == file.state \in {"null", "primitive"}

\* if (!Array.isArray(manifest.templates)) manifest.templates = [];
\* manifest.version = manifest.version ?? 1; return manifest
Coerced(file) ==
  [version |-> VersionOr1(file.version),
   templates |-> IF file.arr THEN file.templates ELSE <<>>]

\* LoadTemplateManifest without the catch: the exception of the try body escapes
LoadTemplateManifest_NoCatch(file) ==
  IF ReadJSONThrows(file) \/ CoerceThrows(file)
  THEN [raised |-> TRUE, manifest |-> EmptyManifest]
  ELSE [raised |-> FALSE, manifest |-> Coerced(file)]

\* loadTemplateManifest: how the call ends and the manifest it returns
LoadTemplateManifest(file) ==
  IF ReadJSONThrows(file) \/ CoerceThrows(file)
  THEN [raised |-> FALSE, manifest |-> EmptyManifest]
  ELSE [raised |-> FALSE, manifest |-> Coerced(file)]

\* The manifest loadTemplateManifest returns
LoadManifest(file) == LoadTemplateManifest(file).manifest

\* saveTemplateManifest: the file fs.writeJSON leaves
SavedFile(manifest) == Doc(VersionOr1(manifest.version), manifest.templates)

\* How fs.writeJSON (fs.writeFile of the JSON text: open truncating, write, close) ends:
\* it resolves; it rejects at the open, the file untouched; or it rejects after the
\* open, the file empty or cut short
WriteOutcomes == {"written", "rejected", "torn"}

\* The user manifest file after saveTemplateManifest(manifest) ended that way
WrittenFile(file, manifest, write) ==
  CASE write = "written" -> SavedFile(manifest)
    [] write = "rejected" -> file
    [] OTHER -> CorruptFile

(***************************************************************************)
(* refreshAllTemplates.                                                    *)
(***************************************************************************)
\* { name, status: 'ok', path } or { name, status: 'error', error: error.message }
ResultOf(c) ==
  IF c.result = "ok"
  THEN [name |-> c.tpl.name, status |-> "ok", path |-> c.path, error |-> NoError]
  ELSE [name |-> c.tpl.name, status |-> "error", path |-> Undef, error |-> c.error]

\* const manifest = await loadTemplateManifest(); const results = []
RefreshBegin(p) ==
  /\ pc[p] = "idle"
  /\ ~batch[p].active
  /\ LET manifest == LoadManifest(userFile)
     IN /\ nfetch + Len(manifest.templates) <= MaxFetches
        /\ \E force \in BOOLEAN :
             batch' = [batch EXCEPT ![p] = [IdleBatch EXCEPT !.active = TRUE, !.force = force,
                                              !.templates = manifest.templates, !.i = 1]]
  /\ UNCHANGED <<cache, nfetch, pc, call>>
  /\ UNCHANGED <<manVars, bootVars, flowVars>>

\* for (const template of manifest.templates) { try { await ensureTemplateCache(...)
RefreshEnsure(p) ==
  /\ batch[p].active
  /\ ~batch[p].returned
  /\ batch[p].i <= Len(batch[p].templates)
  /\ EnsureBegin(p, batch[p].templates[batch[p].i], batch[p].force, "refresh")
  /\ UNCHANGED batch
  /\ UNCHANGED <<manVars, bootVars, flowVars>>

\* RefreshCollect without the try/catch: an error of ensureTemplateCache ends the batch
RefreshCollect_Rethrows(p) ==
  /\ pc[p] = "done"
  /\ call[p].caller = "refresh"
  /\ batch' = IF call[p].result = "ok"
              THEN [batch EXCEPT ![p].results = Append(@, ResultOf(call[p])), ![p].i = @ + 1]
              ELSE [batch EXCEPT ![p].returned = TRUE]
  /\ pc' = [pc EXCEPT ![p] = "idle"]
  /\ call' = [call EXCEPT ![p] = IdleCall]
  /\ UNCHANGED <<cache, nfetch>>
  /\ UNCHANGED <<manVars, bootVars, flowVars>>

\* results.push(...) in the try or in the catch
RefreshCollect(p) ==
  /\ pc[p] = "done"
  /\ call[p].caller = "refresh"
  /\ batch' = [batch EXCEPT ![p].results = Append(@, ResultOf(call[p])),
                            ![p].i = @ + 1]
  /\ pc' = [pc EXCEPT ![p] = "idle"]
  /\ call' = [call EXCEPT ![p] = IdleCall]
  /\ UNCHANGED <<cache, nfetch>>
  /\ UNCHANGED <<manVars, bootVars, flowVars>>

\* return results
RefreshReturn(p) ==
  /\ batch[p].active
  /\ ~batch[p].returned
  /\ pc[p] = "idle"
  /\ batch[p].i > Len(batch[p].templates)
  /\ batch' = [batch EXCEPT ![p].returned = TRUE]
  /\ UNCHANGED <<cache, nfetch, pc, call>>
  /\ UNCHANGED <<manVars, bootVars, flowVars>>

\* The caller (templatesMenu) prints the summary
RefreshDone(p) ==
  /\ batch[p].returned
  /\ batch' = [batch EXCEPT ![p] = IdleBatch]
  /\ UNCHANGED <<cache, nfetch, pc, call>>
  /\ UNCHANGED <<manVars, bootVars, flowVars>>

(***************************************************************************)
(* Manifest Reconciler.                                                    *)
(***************************************************************************)
\* Shipped entry updated by a release: new ref and bootstrap, no subdir key any more.
TplWebV2 == Ent("web", "Web", "remote", "acme/scaffolds", "v2", Undef, Undef, "B2", Undef)
\* The user's copy of the web entry, edited: retargeted ref, bootstrap keys reordered.
TplWebEdited == Ent("web", "Web", "remote", "acme/scaffolds", "dev", "web-starter", Undef, "B1r", "legacy")
\* Shipped entry with "bootstrap": null, and the user's copy without the key.
TplNb == Ent("nb", Undef, "local", Undef, Undef, Undef, "basic", Null, Undef)
TplNbUser == Ent("nb", Undef, "local", Undef, Undef, Undef, "basic", Undef, Undef)
\* Shipped entry without a name: the loop skips it.
TplNameless == Ent(Undef, "Nameless", "local", Undef, Undef, Undef, "basic", Undef, Undef)

\* User entry with neither a name nor a title.
TplLoose == Ent(Undef, Undef, "github", "me/loose", Undef, Undef, Undef, Undef, Undef)

BasePool == {TplWeb, TplWebV2, TplNb, TplNameless}

UserPool == {TplMine, TplWeb, TplWebEdited, TplNbUser}

\* const keys = [...]
ReconKeys == <<"title", "description", "source", "repo", "ref", "subdir", "localPath",
               "featured", "bootstrap">>

\* JSON.stringify of the bootstrap values of the pools (B1r: B1 with its keys in
\* another order)
StringifyJSON(v) ==
  CASE v = Null -> "null"
    [] v = "B1" -> "{\"installCommand\":\"make\",\"devCommand\":\"make dev\"}"
    [] v = "B1r" -> "{\"devCommand\":\"make dev\",\"installCommand\":\"make\"}"
    [] v = "B2" -> "{\"installCommand\":\"make all\"}"
    [] v = "B3" -> "{\"installCommand\":\"make\",\"deployCommands\":[\"anchor deploy\"],\"devCommand\":\"make dev\"}"
    [] OTHER -> v

\* const same = key === 'bootstrap' ? JSON.stringify(existing[key] ?? null) ===
\* JSON.stringify(tpl[key] ?? null) : existing[key] === tpl[key]
Same(key, a, b) ==
  IF key = "bootstrap"
  THEN StringifyJSON(Nullish(a, Null)) = StringifyJSON(Nullish(b, Null))
  ELSE a = b

\* KeepsField without the `tpl[key] === undefined` skip
KeepsField_NoUndefinedSkip(key, existing, tpl) == Same(key, existing[key], tpl[key])

\* if (tpl[key] === undefined) continue; if (same) continue;
KeepsField(key, existing, tpl) == tpl[key] = Undef \/ Same(key, existing[key], tpl[key])

RECURSIVE OverwriteKeys(_, _, _)
\* for (const key of keys) { ...; existing[key] = tpl[key]; changed = true }, from key k on:
\* the entry and whether a field was overwritten
OverwriteKeys(existing, tpl, k) ==
  IF k > Len(ReconKeys) THEN [entry |-> existing, changed |-> FALSE]
  ELSE LET key == ReconKeys[k]
       IN IF KeepsField(key, existing, tpl)
          THEN OverwriteKeys(existing, tpl, k + 1)
          ELSE [OverwriteKeys([existing EXCEPT ![key] = tpl[key]], tpl, k + 1)
                  EXCEPT !.changed = TRUE]

\* The names an index can hold
AllNames == {t.name : t \in CachePool \cup BasePool \cup UserPool}

\* MergedStart built from nothing: only default entries reach the merge
MergedStart_Empty(user) == <<>>

\* const merged = [...user.templates]
MergedStart(user) == user.templates

\* new Map(merged.map((tpl, idx) => [tpl.name, idx])): a later entry of the same name
\* replaces the earlier one; 0 stands for no key
IndexOf(merged) ==
  [n \in AllNames |->
     IF \E i \in 1..Len(merged) : merged[i].name = n
     THEN CHOOSE i \in 1..Len(merged) :
            /\ merged[i].name = n
            /\ \A j \in 1..Len(merged) : merged[j].name = n => j <= i
     ELSE 0]

\* MergeOne whose append forgets `changed = true`
MergeOne_AppendUnflagged(st, tpl) ==
  IF Falsy(tpl.name) THEN st
  ELSE IF st.index[tpl.name] # 0
  THEN LET o == OverwriteKeys(st.merged[st.index[tpl.name]], tpl, 1)
       IN [st EXCEPT !.merged[st.index[tpl.name]] = o.entry,
                     !.changed = @ \/ o.changed]
  ELSE [merged |-> Append(st.merged, tpl),
        index |-> [st.index EXCEPT ![tpl.name] = Len(st.merged) + 1],
        changed |-> st.changed]

\* One turn of `for (const tpl of base.templates)`
MergeOne(st, tpl) ==
  IF Falsy(tpl.name) THEN st
  ELSE IF st.index[tpl.name] # 0
  THEN LET o == OverwriteKeys(st.merged[st.index[tpl.name]], tpl, 1)
       IN [st EXCEPT !.merged[st.index[tpl.name]] = o.entry,
                     !.changed = @ \/ o.changed]
  ELSE [merged |-> Append(st.merged, tpl),
        index |-> [st.index EXCEPT ![tpl.name] = Len(st.merged) + 1],
        changed |-> TRUE]

RECURSIVE MergeAll(_, _, _)
\* The loop over base.templates from entry i on
MergeAll(st, templates, i) ==
  IF i > Len(templates) THEN st
  ELSE MergeAll(MergeOne(st, templates[i]), templates, i + 1)

\* The order of localeCompare on the titles and names of the pools
Collation == <<"Bad", "Basic", "Gone", "Mine", "Nameless", "nb", "Web">>

Rank(s) == CHOOSE i \in 1..Len(Collation) : Collation[i] = s

\* (a.title || a.name).localeCompare(b.title || b.name) <= 0
SortsBefore(a, b) == Rank(Or(a.title, a.name)) <= Rank(Or(b.title, b.name))

RECURSIVE SortEntries(_)
\* merged.sort(...): Array.prototype.sort is stable
SortEntries(seq) ==
  IF Len(seq) <= 1 THEN seq
  ELSE LET front == SortEntries(SubSeq(seq, 1, Len(seq) - 1))
           last == seq[Len(seq)]
           k == Cardinality({i \in 1..Len(front) : SortsBefore(front[i], last)})
       IN SubSeq(front, 1, k) \o <<last>> \o SubSeq(front, k + 1, Len(front))

\* A null among the entries of a templates array
NullEntry == Ent(Null, Null, Null, Null, Null, Null, Null, Null, Null)

\* new Map(merged.map((tpl, idx) => [tpl.name, idx])): tpl.name of null is a TypeError
IndexThrows(merged) == \E i \in 1..Len(merged) : merged[i] = NullEntry

\* (a.title || a.name).localeCompare(...) is a TypeError on an entry with neither a
\* title nor a name; every entry of a list of two or more is compared
SortThrows(merged) ==
  /\ Len(merged) >= 2
  /\ \E i \in 1..Len(merged) : Or(merged[i].title, merged[i].name) \in {Undef, Null}

\* Math.max(base.version ?? 1, user.version ?? 1)
TargetVersion(baseVersion, userVersion) ==
  IF VersionOr1(baseVersion) >= VersionOr1(userVersion)
  THEN VersionOr1(baseVersion) ELSE VersionOr1(userVersion)

\* The early returns: a manifest file does not exist, or the default manifest cannot
\* be read or has no templates array
ReconcileAborts(base, user) ==
  \/ user.state = "missing"
  \/ base.state = "missing"
  \/ base.state = "corrupt"
  \/ ~base.arr

\* ReconcileMerge without the `if (!changed) return`: every merge is saved
ReconcileMerge_AlwaysChanged(base, user) ==
  LET loaded == LoadManifest(user)
      st == MergeAll([merged |-> MergedStart(loaded), index |-> IndexOf(MergedStart(loaded)),
                      changed |-> FALSE], base.templates, 1)
      target == TargetVersion(base.version, loaded.version)
  IN [changed |-> TRUE,
      sortThrows |-> SortThrows(st.merged),
      manifest |-> [version |-> target,
                    templates |-> IF SortThrows(st.merged) THEN st.merged
                                  ELSE SortEntries(st.merged)]]

\* The merge of reconcileTemplateManifestWithDefaults: whether anything changed,
\* whether the sort throws, and the manifest it would save
ReconcileMerge(base, user) ==
  LET loaded == LoadManifest(user)
      st == MergeAll([merged |-> MergedStart(loaded), index |-> IndexOf(MergedStart(loaded)),
                      changed |-> FALSE], base.templates, 1)
      target == TargetVersion(base.version, loaded.version)
  IN [changed |-> st.changed \/ VersionOr1(loaded.version) # target,
      sortThrows |-> SortThrows(st.merged),
      manifest |-> [version |-> target,
                    templates |-> IF SortThrows(st.merged) THEN st.merged
                                  ELSE SortEntries(st.merged)]]

IdleRecon == [done |-> FALSE, runs |-> 0, userBefore |-> MissingFile, outcome |-> "none"]

\* reconcileTemplateManifestWithDefaults: how the call ends and the user manifest file
\* it leaves; write: how fs.writeJSON ends.  A TypeError of the merge and a rejection
\* of the write end in the catch, which swallows them
ReconcileResult(base, user, write) ==
  IF ReconcileAborts(base, user) THEN [outcome |-> "aborted", file |-> user]
  ELSE IF IndexThrows(MergedStart(LoadManifest(user))) THEN [outcome |-> "threw", file |-> user]
  ELSE LET m == ReconcileMerge(base, user)
       IN IF ~m.changed THEN [outcome |-> "unchanged", file |-> user]
          ELSE IF m.sortThrows THEN [outcome |-> "threw", file |-> user]
          ELSE [outcome |-> IF write = "written" THEN "saved" ELSE "savefail",
                file |-> WrittenFile(user, m.manifest, write)]

\* A call of reconcileTemplateManifestWithDefaults on the files as they are
Reconcile ==
  /\ recon.runs < MaxRecons
  /\ \E write \in WriteOutcomes :
       LET r == ReconcileResult(baseFile, userFile, write)
       IN /\ userFile' = r.file
          /\ recon' = [done |-> TRUE, runs |-> recon.runs + 1, userBefore |-> userFile,
                       outcome |-> r.outcome]
  /\ UNCHANGED baseFile
  /\ UNCHANGED <<cacheVars, bootVars, flowVars>>

\* initConfig, the manifest part: a missing user manifest is seeded from the default
\* manifest (fs.copy) or as an empty one, then reconciliation runs; a failing seed
\* write throws into initConfig's own catch, past the reconciliation
InitConfig ==
  /\ recon.runs < MaxRecons
  /\ \E seed \in WriteOutcomes, write \in WriteOutcomes :
       LET seeded == IF userFile.state # "missing" THEN userFile
                     ELSE IF baseFile.state # "missing" THEN baseFile
                     ELSE Doc(1, <<>>)
       IN IF userFile.state = "missing" /\ seed # "written"
          THEN /\ recon' = [IdleRecon EXCEPT !.runs = recon.runs + 1]
               /\ userFile' = IF seed = "torn" THEN CorruptFile ELSE userFile
          ELSE LET r == ReconcileResult(baseFile, seeded, write)
               IN /\ userFile' = r.file
                  /\ recon' = [done |-> TRUE, runs |-> recon.runs + 1,
                               userBefore |-> seeded, outcome |-> r.outcome]
  /\ UNCHANGED baseFile
  /\ UNCHANGED <<cacheVars, bootVars, flowVars>>

RECURSIVE DistinctSeqs(_, _)
\* The sequences of at most n entries of pool with pairwise different names
DistinctSeqs(pool, n) ==
  IF n = 0 THEN {<<>>}
  ELSE LET shorter == DistinctSeqs(pool, n - 1)
       IN shorter \cup
          UNION {{Append(s, e) : e \in {x \in pool : \A i \in 1..Len(s) : s[i].name # x.name}} :
                   s \in shorter}

(***************************************************************************)
(* Bootstrap Planner and Step Runner.                                      *)
(***************************************************************************)
\* const candidates = [...] of detectPackageManager, in probe order
LockCandidates ==
  <<[file |-> "pnpm-lock.yaml", value |-> "pnpm"],
    [file |-> "yarn.lock", value |-> "yarn"],
    [file |-> "bun.lockb", value |-> "bun"],
    [file |-> "package-lock.json", value |-> "npm"]>>

\* PACKAGE_MANAGER_INSTALL[packageManager] || null
InstallCommandOf(pm) ==
  CASE pm = "npm" -> "npm install"
    [] pm = "pnpm" -> "pnpm install"
    [] pm = "yarn" -> "yarn install"
    [] pm = "bun" -> "bun install"
    [] OTHER -> Null

\* PACKAGE_MANAGER_DEV[packageManager] || null
DevCommandOf(pm) ==
  CASE pm = "npm" -> "npm run dev"
    [] pm = "pnpm" -> "pnpm dev"
    [] pm = "yarn" -> "yarn dev"
    [] pm = "bun" -> "bun dev"
    [] OTHER -> Null

\* A destination directory: the probed files it holds and what its package.json is
\* ("unreadable": not JSON, or a falsy JSON value, which the planner tests alike;
\* "plain": no scripts.dev; "withDev": a dev script)
DestFiles == {"package.json"} \cup {LockCandidates[i].file : i \in 1..Len(LockCandidates)}

\* loadPackageJsonIfExists: null when the file is missing or cannot be read
LoadPackageJson(dest) ==
  IF "package.json" \notin dest.files THEN Null
  ELSE IF dest.pkg = "unreadable" THEN Null
  ELSE dest.pkg

\* FirstLock probing from the end of the list: the last candidate present wins
FirstLock_LastWins(files, i) ==
  IF \A k \in i..Len(LockCandidates) : LockCandidates[k].file \notin files THEN Null
  ELSE LockCandidates[CHOOSE k \in i..Len(LockCandidates) :
                        /\ LockCandidates[k].file \in files
                        /\ \A j \in i..Len(LockCandidates) :
                             LockCandidates[j].file \in files => j <= k].value

RECURSIVE FirstLock(_, _)
\* for (const candidate of candidates) { if (pathExists) return candidate.value }
FirstLock(files, i) ==
  IF i > Len(LockCandidates) THEN Null
  ELSE IF LockCandidates[i].file \in files THEN LockCandidates[i].value
  ELSE FirstLock(files, i + 1)

\* detectPackageManager(dir, preferred)
DetectPackageManager(files, preferred) ==
  IF ~Falsy(preferred) THEN preferred
  ELSE IF FirstLock(files, 1) # Null THEN FirstLock(files, 1)
  ELSE IF "package.json" \in files THEN "npm" ELSE Null

\* formatStepName(defaultLabel, command)
FormatStepName(defaultLabel, command) == Or(defaultLabel, command)

\* The install command of the plan, null when there is no install step
PlanInstallCommand(bootstrap, dest) ==
  LET packageJson == LoadPackageJson(dest)
      packageManager == DetectPackageManager(dest.files, bootstrap.packageManager)
      given == Or(bootstrap.installCommand, Null)
  IN IF Falsy(given) /\ ~Falsy(packageJson) /\ ~Falsy(packageManager)
     THEN Or(InstallCommandOf(packageManager), Null)
     ELSE given

\* The step of one entry of bootstrap.deployCommands: none for a falsy entry, the
\* default label for a string, entry.name || entry.command for an object
DeploySteps(entry) ==
  IF entry.kind = "null" THEN <<>>
  ELSE IF entry.kind = "string"
  THEN <<[name |-> FormatStepName("Run deployment command", entry.command),
          command |-> entry.command]>>
  ELSE <<[name |-> FormatStepName(Or(entry.name, Null), entry.command),
          command |-> entry.command]>>

RECURSIVE DeployPlan(_, _)
\* for (const entry of deployCommands) { ... steps.push(...) }
DeployPlan(entries, i) ==
  IF i > Len(entries) THEN <<>>
  ELSE DeploySteps(entries[i]) \o DeployPlan(entries, i + 1)

\* PlanSteps pushing the install step after the deploy steps
PlanSteps_InstallLast(bootstrap, dest) ==
  LET installCommand == PlanInstallCommand(bootstrap, dest)
  IN DeployPlan(bootstrap.deployCommands, 1)
     \o (IF ~Falsy(installCommand)
         THEN <<[name |-> FormatStepName("Install dependencies", installCommand),
                 command |-> installCommand]>>
         ELSE <<>>)

\* steps of bootstrapTemplateDestination: the install step, if any, then the deploy steps
PlanSteps(bootstrap, dest) ==
  LET installCommand == PlanInstallCommand(bootstrap, dest)
  IN (IF ~Falsy(installCommand)
      THEN <<[name |-> FormatStepName("Install dependencies", installCommand),
              command |-> installCommand]>>
      ELSE <<>>)
     \o DeployPlan(bootstrap.deployCommands, 1)

\* devCommand of the value bootstrapTemplateDestination returns
PlanDevCommand(bootstrap, dest) ==
  LET packageJson == LoadPackageJson(dest)
      packageManager == DetectPackageManager(dest.files, bootstrap.packageManager)
      given == Or(bootstrap.devCommand, Null)
  IN IF Falsy(given) /\ ~Falsy(packageJson) /\ ~Falsy(packageManager) /\ packageJson = "withDev"
     THEN Or(DevCommandOf(packageManager), Null)
     ELSE given

\* How a spawned step ends: exit code 0, a non-zero exit code, or the 'error' event
StepOutcomes == {"exit0", "exit1", "spawnError"}

\* The message runShellCommand rejects with
StepErrorMessage(command, outcome) ==
  IF outcome = "spawnError" THEN [kind |-> "spawn", command |-> Undef, code |-> Undef]
  ELSE [kind |-> "Command failed", command |-> command, code |-> "1"]

NoStepError == [kind |-> "", command |-> Undef, code |-> Undef]

\* new Error(`Step "${step.name}" failed: ${error.message}`)
StepFailed(name, message) == [step |-> name, message |-> message]

\* template.bootstrap || {}
NoBootstrap ==
  [packageManager |-> Undef, installCommand |-> Undef, deployCommands |-> <<>>,
   devCommand |-> Undef]

\* A destination directory without any of the probed files
EmptyDest == [files |-> {}, pkg |-> "plain"]

IdleBoot ==
  [status |-> "idle", bootstrap |-> NoBootstrap, dest |-> EmptyDest, packageManager |-> Null,
   plan |-> <<>>, ran |-> <<>>, devCommand |-> Null,
   error |-> StepFailed(Undef, NoStepError)]

\* bootstrapTemplateDestination up to the step loop: the plan is built
BootstrapBegin(bootstrap, dest) ==
  /\ boot.status = "idle"
  /\ boot' = [IdleBoot EXCEPT !.status = "running", !.bootstrap = bootstrap, !.dest = dest,
                              !.packageManager =
                                 DetectPackageManager(dest.files, bootstrap.packageManager),
                              !.plan = PlanSteps(bootstrap, dest),
                              !.devCommand = PlanDevCommand(bootstrap, dest)]
  /\ UNCHANGED <<cacheVars, manVars, flowVars>>

\* RunStep that logs a failing step and goes on to the next one
RunStep_KeepsGoing(outcome) ==
  /\ boot.status = "running"
  /\ Len(boot.ran) < Len(boot.plan)
  /\ LET step == boot.plan[Len(boot.ran) + 1]
     IN boot' = [boot EXCEPT !.ran = Append(@, [name |-> step.name, outcome |-> outcome])]
  /\ UNCHANGED <<cacheVars, manVars, flowVars>>

\* One turn of `for (const step of steps)`: the step runs to its end; a rejection is
\* rethrown as Step "<name>" failed
RunStep(outcome) ==
  /\ boot.status = "running"
  /\ Len(boot.ran) < Len(boot.plan)
  /\ LET step == boot.plan[Len(boot.ran) + 1]
         ran == Append(boot.ran, [name |-> step.name, outcome |-> outcome])
     IN IF outcome = "exit0"
        THEN boot' = [boot EXCEPT !.ran = ran]
        ELSE boot' = [boot EXCEPT !.ran = ran, !.status = "threw", !.devCommand = Null,
                                  !.error = StepFailed(step.name,
                                               StepErrorMessage(step.command, outcome))]
  /\ UNCHANGED <<cacheVars, manVars, flowVars>>

\* return { devCommand, devCwd, devEnv }
BootstrapReturn ==
  /\ boot.status = "running"
  /\ Len(boot.ran) = Len(boot.plan)
  /\ boot' = [boot EXCEPT !.status = "returned"]
  /\ UNCHANGED <<cacheVars, manVars, flowVars>>

\* The caller takes the result or catches the error
BootstrapDone ==
  /\ boot.status \in {"returned", "threw"}
  /\ boot' = IdleBoot
  /\ UNCHANGED <<cacheVars, manVars, flowVars>>

(***************************************************************************)
(* templatesMenu and templatePullFlow.                                     *)
(***************************************************************************)
\* The order of localeCompare on the names of the pools
NameCollation == <<"bad", "basic", "gone", "mine", "nb", "web">>

NameRank(n) == CHOOSE i \in 1..Len(NameCollation) : NameCollation[i] = n

\* a.name.localeCompare(b.name) is a TypeError on an entry without a name; every entry
\* of a list of two or more is compared
SortByNameThrows(seq) ==
  /\ Len(seq) >= 2
  /\ \E i \in 1..Len(seq) : seq[i].name \in {Undef, Null}

RECURSIVE SortByName(_)
\* .sort((a, b) => a.name.localeCompare(b.name)): Array.prototype.sort is stable
SortByName(seq) ==
  IF Len(seq) <= 1 THEN seq
  ELSE LET front == SortByName(SubSeq(seq, 1, Len(seq) - 1))
           last == seq[Len(seq)]
           k == Cardinality({i \in 1..Len(front) : NameRank(front[i].name) <= NameRank(last.name)})
       IN SubSeq(front, 1, k) \o <<last>> \o SubSeq(front, k + 1, Len(front))

\* const entry = { name, title, description, source: 'github', repo, ref, subdir } of the
\* answers: no description, the default ref, no subdirectory
PullEntry(name, title, repo) == Ent(name, title, "github", repo, "main", Null, Undef, Undef, Undef)

\* The answers of the model: a new template, and one named like a shipped template
PullAnswers == {PullEntry("mine", "Mine", "me/mine"), PullEntry("web", "Web", "acme/scaffolds")}

\* manifest.templates.find(t => t.name === entry.name)
PullExisting(templates, entry) == \E i \in 1..Len(templates) : templates[i].name = entry.name

\* PullKept without the filter: the entry is appended to the whole list
PullKept_NoFilter(templates, entry) == templates

\* manifest.templates.filter(t => t.name !== entry.name)
PullKept(templates, entry) == SelectSeq(templates, LAMBDA t : t.name # entry.name)

IdleMenu ==
  [stage |-> "idle", file |-> MissingFile, loadRaised |-> FALSE, manifest |-> EmptyManifest,
   entry |-> NoTpl, outcome |-> "none"]

\* A start of the tool (main, or the entry of templatesMenu): initConfig
ToolStart ==
  /\ \A p \in Procs : menu[p].stage = "idle"
  /\ InitConfig

\* initConfig up to `const user = await loadTemplateManifest()` of the reconciliation:
\* the seed of a missing user manifest, the early returns, and the user manifest as
\* read (the merge and the save follow in ReconcileSave)
ReconcileLoad(p) ==
  /\ menu[p].stage = "idle"
  /\ recon.runs < MaxRecons
  /\ \E seed \in WriteOutcomes :
       LET seeded == IF userFile.state # "missing" THEN userFile
                     ELSE IF baseFile.state # "missing" THEN baseFile
                     ELSE Doc(1, <<>>)
       IN IF userFile.state = "missing" /\ seed # "written"
          THEN /\ userFile' = IF seed = "torn" THEN CorruptFile ELSE userFile
               /\ recon' = [IdleRecon EXCEPT !.runs = recon.runs + 1]
               /\ UNCHANGED menu
          ELSE /\ userFile' = seeded
               /\ IF ReconcileAborts(baseFile, seeded)
                  THEN /\ recon' = [done |-> TRUE, runs |-> recon.runs + 1,
                                    userBefore |-> seeded, outcome |-> "aborted"]
                       /\ UNCHANGED menu
                  ELSE /\ recon' = [recon EXCEPT !.runs = recon.runs + 1]
                       /\ menu' = [menu EXCEPT ![p] =
                                     [IdleMenu EXCEPT !.stage = "recon", !.file = seeded,
                                                      !.manifest = LoadManifest(seeded)]]
  /\ UNCHANGED <<feat, work>>
  /\ UNCHANGED baseFile
  /\ UNCHANGED <<cacheVars, bootVars>>

\* The rest of the reconciliation, on the user manifest as it was read: the merge and,
\* when something changed, the sort and saveTemplateManifest over the file as it is now
ReconcileSave(p) ==
  /\ menu[p].stage = "recon"
  /\ \E write \in WriteOutcomes :
       LET r == ReconcileResult(baseFile, menu[p].file, write)
       IN /\ userFile' = IF r.outcome \in {"saved", "savefail"}
                         THEN WrittenFile(userFile,
                                          ReconcileMerge(baseFile, menu[p].file).manifest, write)
                         ELSE userFile
          /\ recon' = [done |-> TRUE, runs |-> recon.runs, userBefore |-> menu[p].file,
                       outcome |-> r.outcome]
  /\ menu' = [menu EXCEPT ![p] = IdleMenu]
  /\ UNCHANGED <<feat, work>>
  /\ UNCHANGED baseFile
  /\ UNCHANGED <<cacheVars, bootVars>>

\* The top of the loop of templatesMenu: const manifest = await loadTemplateManifest()
MenuLoad(p) ==
  /\ menu[p].stage = "idle"
  /\ recon.runs > 0
  /\ LET r == LoadTemplateManifest(userFile)
     IN menu' = [menu EXCEPT ![p] =
                   [IdleMenu EXCEPT !.stage = IF r.raised THEN "crashed" ELSE "menu",
                                    !.file = userFile, !.loadRaised = r.raised,
                                    !.manifest = r.manifest]]
  /\ UNCHANGED <<feat, work>>
  /\ UNCHANGED <<cacheVars, manVars, bootVars>>

\* 'back', or an action that only shows something: the loop goes round
MenuBack(p) ==
  /\ menu[p].stage = "menu"
  /\ menu' = [menu EXCEPT ![p] = IdleMenu]
  /\ UNCHANGED <<feat, work>>
  /\ UNCHANGED <<cacheVars, manVars, bootVars>>

\* PullSave whose save also makes the cache directory of the entry
PullSave_TouchesCache(p) ==
  /\ menu[p].stage = "menu"
  /\ nfetch < MaxPulls
  /\ \E entry \in PullAnswers :
       /\ menu' = [menu EXCEPT ![p].stage = "cache", ![p].entry = entry, ![p].outcome = "saved"]
       /\ userFile' = SavedFile([version |-> VersionOr1(menu[p].manifest.version),
                                 templates |-> SortByName(Append(PullKept(menu[p].manifest.templates,
                                                                          entry), entry))])
       /\ cache' = [cache EXCEPT ![entry.name] = [NoDir EXCEPT !.exists = TRUE]]
  /\ UNCHANGED <<feat, work>>
  /\ UNCHANGED <<baseFile, recon>>
  /\ UNCHANGED <<nfetch, pc, call, batch>>
  /\ UNCHANGED bootVars

\* templatePullFlow(manifest) from the prompts to the end of saveTemplateManifest: the
\* flow returns when the user keeps an existing entry; an exception of the sort or of
\* fs.writeJSON leaves templatePullFlow, templatesMenu and mainMenu, and main exits
PullSave(p) ==
  /\ menu[p].stage = "menu"
  /\ nfetch < MaxPulls
  /\ \E entry \in PullAnswers, overwrite \in BOOLEAN, write \in WriteOutcomes :
       LET manifest == menu[p].manifest
           list == Append(PullKept(manifest.templates, entry), entry)
       IN IF PullExisting(manifest.templates, entry) /\ ~overwrite
          THEN /\ menu' = [menu EXCEPT ![p] = [IdleMenu EXCEPT !.outcome = "cancelled"]]
               /\ UNCHANGED userFile
          ELSE IF SortByNameThrows(list)
          THEN /\ menu' = [menu EXCEPT ![p].stage = "crashed", ![p].entry = entry,
                                       ![p].outcome = "sortThrew"]
               /\ UNCHANGED userFile
          ELSE /\ menu' = IF write = "written"
                          THEN [menu EXCEPT ![p].stage = "cache", ![p].entry = entry,
                                            ![p].outcome = "saved"]
                          ELSE [menu EXCEPT ![p].stage = "crashed", ![p].entry = entry,
                                            ![p].outcome = "saveThrew"]
               /\ userFile' = WrittenFile(userFile, [version |-> VersionOr1(manifest.version),
                                                     templates |-> SortByName(list)], write)
  /\ UNCHANGED <<feat, work>>
  /\ UNCHANGED <<baseFile, recon>>
  /\ UNCHANGED <<cacheVars, bootVars>>

\* try { const cachePath = await ensureTemplateCache(entry, { force: true })
PullEnsure(p) ==
  /\ menu[p].stage = "cache"
  /\ EnsureBegin(p, menu[p].entry, TRUE, "pull")
  /\ UNCHANGED batch
  /\ UNCHANGED <<manVars, bootVars, flowVars>>

\* The path or the caught error is printed and the flow returns to the menu
PullEnd(p) ==
  /\ pc[p] = "done"
  /\ call[p].caller = "pull"
  /\ pc' = [pc EXCEPT ![p] = "idle"]
  /\ call' = [call EXCEPT ![p] = IdleCall]
  /\ menu' = [menu EXCEPT ![p] = IdleMenu]
  /\ UNCHANGED <<cache, nfetch, batch>>
  /\ UNCHANGED <<feat, work>>
  /\ UNCHANGED <<manVars, bootVars>>

(***************************************************************************)
(* featuredTemplatePull: cache, copy into the workspace, bootstrap, dev     *)
(* server.                                                                 *)
(***************************************************************************)
\* The bootstrap objects of the pools (see StringifyJSON); template.bootstrap || {}
BootstrapOf(v) ==
  CASE v \in {"B1", "B1r"} ->
         [packageManager |-> Undef, installCommand |-> "make", deployCommands |-> <<>>,
          devCommand |-> "make dev"]
    [] v = "B2" ->
         [packageManager |-> Undef, installCommand |-> "make all", deployCommands |-> <<>>,
          devCommand |-> Undef]
    [] v = "B3" ->
         [packageManager |-> Undef, installCommand |-> "make",
          deployCommands |-> <<[kind |-> "string", name |-> Undef, command |-> "anchor deploy"]>>,
          devCommand |-> "make dev"]
    [] OTHER -> NoBootstrap

\* The files present in a directory
FilesIn(dir) == {f \in FileNames : dir.files[f] > 0}

\* CopyNoOverwrite with overwrite: true: a file the destination already has is replaced
CopyNoOverwrite_Overwrites(src, dst, done, sidecar) ==
  [exists |-> TRUE,
   files |-> [f \in FileNames |-> IF f \in done THEN src.files[f] ELSE dst.files[f]],
   meta |-> IF sidecar THEN src.meta ELSE dst.meta]

\* fs.copy(cachePath, destination, { overwrite: false }) of the files `done` and, when
\* sidecar, of .lili-template.json: a file the destination already has is kept
CopyNoOverwrite(src, dst, done, sidecar) ==
  [exists |-> TRUE,
   files |-> [f \in FileNames |-> IF f \in done /\ dst.files[f] = 0 THEN src.files[f]
                                  ELSE dst.files[f]],
   meta |-> IF sidecar /\ dst.meta = 0 THEN src.meta ELSE dst.meta]

\* The outcomes of that fs.copy: it rejects at once when the source is missing; else it
\* resolves after copying everything, or rejects after copying none or part of it
WorkCopyOutcomes(src, dst) ==
  IF ~src.exists THEN {<<FALSE, dst>>}
  ELSE {<<TRUE, CopyNoOverwrite(src, dst, FilesIn(src), TRUE)>>, <<FALSE, dst>>} \cup
       {<<FALSE, CopyNoOverwrite(src, dst, done, sidecar)>> :
          done \in (SUBSET FilesIn(src)) \ {FilesIn(src)}, sidecar \in BOOLEAN}

\* What the destination holds for the planner, by what the template ships
FeatDests ==
  {EmptyDest, [files |-> {"package.json"}, pkg |-> "plain"],
   [files |-> {"package.json", "yarn.lock"}, pkg |-> "withDev"]}

IdleFeat ==
  [stage |-> "idle", tpl |-> NoTpl, cacheOk |-> FALSE, cachePath |-> "", gen |-> 0,
   copied |-> FALSE, sidecar |-> FALSE, dest |-> EmptyDest, booted |-> "no", ran |-> <<>>,
   devCommand |-> Null, startDev |-> FALSE, launched |-> FALSE, devOutcome |-> "none",
   failed |-> FALSE]

\* manifest.templates.filter(t => t.featured), the selection, featured.find(...)
FeatPick(p) ==
  /\ menu[p].stage = "menu"
  /\ feat[p].stage = "idle"
  /\ nfetch < MaxFetches
  /\ \E i \in 1..Len(menu[p].manifest.templates) :
       LET tpl == menu[p].manifest.templates[i]
       IN /\ ~Falsy(tpl.featured)
          /\ \A j \in 1..(i - 1) :
               LET other == menu[p].manifest.templates[j]
               IN Falsy(other.featured) \/ other.name # tpl.name
          /\ feat' = [feat EXCEPT ![p] = [IdleFeat EXCEPT !.stage = "cache", !.tpl = tpl]]
  /\ menu' = [menu EXCEPT ![p].stage = "featured"]
  /\ UNCHANGED work
  /\ UNCHANGED <<cacheVars, manVars, bootVars>>

\* try { const cachePath = await ensureTemplateCache(template, { force: true })
FeatEnsure(p) ==
  /\ feat[p].stage = "cache"
  /\ EnsureBegin(p, feat[p].tpl, TRUE, "featured")
  /\ UNCHANGED batch
  /\ UNCHANGED <<manVars, bootVars, flowVars>>

\* FeatCached that goes on to the copy whether or not ensureTemplateCache threw
FeatCached_IgnoresFailure(p) ==
  /\ pc[p] = "done"
  /\ call[p].caller = "featured"
  /\ feat' = [feat EXCEPT ![p].stage = "copy", ![p].cacheOk = call[p].result = "ok",
                          ![p].cachePath = TargetDir(call[p].tpl), ![p].gen = call[p].gen]
  /\ pc' = [pc EXCEPT ![p] = "idle"]
  /\ call' = [call EXCEPT ![p] = IdleCall]
  /\ UNCHANGED <<cache, nfetch, batch>>
  /\ UNCHANGED <<menu, work>>
  /\ UNCHANGED <<manVars, bootVars>>

\* ensureTemplateCache has returned (then the copyNow prompt) or thrown (then the
\* catch at the end of the flow)
FeatCached(p) ==
  /\ pc[p] = "done"
  /\ call[p].caller = "featured"
  /\ IF call[p].result = "ok"
     THEN \E copyNow \in BOOLEAN :
            feat' = [feat EXCEPT ![p].stage = IF copyNow THEN "copy" ELSE "end",
                                 ![p].cacheOk = TRUE, ![p].cachePath = call[p].path,
                                 ![p].gen = call[p].gen]
     ELSE feat' = [feat EXCEPT ![p].stage = "end", ![p].failed = TRUE]
  /\ pc' = [pc EXCEPT ![p] = "idle"]
  /\ call' = [call EXCEPT ![p] = IdleCall]
  /\ UNCHANGED <<cache, nfetch, batch>>
  /\ UNCHANGED <<menu, work>>
  /\ UNCHANGED <<manVars, bootVars>>

\* await fs.copy(cachePath, destination, { overwrite: false })
FeatCopy(p) ==
  /\ feat[p].stage = "copy"
  /\ \E o \in WorkCopyOutcomes(cache[feat[p].cachePath], work) :
       /\ work' = o[2]
       /\ feat' = IF o[1]
                  THEN [feat EXCEPT ![p].stage = "sidecar", ![p].copied = TRUE]
                  ELSE [feat EXCEPT ![p].stage = "end", ![p].failed = TRUE]
  /\ UNCHANGED menu
  /\ UNCHANGED <<cacheVars, manVars, bootVars>>

\* await writeTemplateMetadata(destination, { ...template, cachePath }), then the probe
\* for package.json in the destination
FeatSidecar(p) ==
  /\ feat[p].stage = "sidecar"
  /\ \/ \E dest \in FeatDests :
          /\ work' = WithMeta(work, feat[p].gen)
          /\ feat' = [feat EXCEPT ![p].stage = "bootPrompt", ![p].sidecar = TRUE,
                                  ![p].dest = dest]
     \/ /\ feat' = [feat EXCEPT ![p].stage = "end", ![p].failed = TRUE]
        /\ UNCHANGED work
  /\ UNCHANGED menu
  /\ UNCHANGED <<cacheVars, manVars, bootVars>>

\* const bootstrapCapable = packageJsonExists || !!template.bootstrap
BootstrapCapable(tpl, dest) == "package.json" \in dest.files \/ ~Falsy(tpl.bootstrap)

\* The bootstrapNow prompt, asked when the project is bootstrap capable
FeatBootPrompt(p) ==
  /\ feat[p].stage = "bootPrompt"
  /\ IF BootstrapCapable(feat[p].tpl, feat[p].dest)
     THEN \E bootstrapNow \in BOOLEAN :
            feat' = [feat EXCEPT ![p].stage = IF bootstrapNow THEN "boot" ELSE "devPrompt"]
     ELSE feat' = [feat EXCEPT ![p].stage = "devPrompt"]
  /\ UNCHANGED <<menu, work>>
  /\ UNCHANGED <<cacheVars, manVars, bootVars>>

\* bootstrapResult = await bootstrapTemplateDestination(template, destination)
FeatBootstrap(p) ==
  /\ feat[p].stage = "boot"
  /\ BootstrapBegin(BootstrapOf(feat[p].tpl.bootstrap), feat[p].dest)

\* FeatBooted whose catch keeps the dev command of the plan
FeatBooted_KeepsDevCommand(p) ==
  /\ feat[p].stage = "boot"
  /\ boot.status \in {"returned", "threw"}
  /\ feat' = [feat EXCEPT ![p].stage = "devPrompt", ![p].booted = boot.status,
                          ![p].ran = boot.ran,
                          ![p].devCommand = PlanDevCommand(boot.bootstrap, boot.dest)]
  /\ boot' = IdleBoot
  /\ UNCHANGED <<menu, work>>
  /\ UNCHANGED <<cacheVars, manVars>>

\* bootstrapTemplateDestination has returned its result, or thrown into the catch that
\* prints "Bootstrap failed" and leaves bootstrapResult null
FeatBooted(p) ==
  /\ feat[p].stage = "boot"
  /\ boot.status \in {"returned", "threw"}
  /\ feat' = [feat EXCEPT ![p].stage = "devPrompt", ![p].booted = boot.status,
                          ![p].ran = boot.ran,
                          ![p].devCommand = IF boot.status = "returned" THEN boot.devCommand
                                            ELSE Null]
  /\ boot' = IdleBoot
  /\ UNCHANGED <<menu, work>>
  /\ UNCHANGED <<cacheVars, manVars>>

\* FeatDevPrompt that goes on to launchDevServer whatever the answer
FeatDevPrompt_AutoStart(p) ==
  /\ feat[p].stage = "devPrompt"
  /\ IF ~Falsy(feat[p].devCommand)
     THEN \E startDev \in BOOLEAN :
            feat' = [feat EXCEPT ![p].stage = "dev", ![p].startDev = startDev]
     ELSE feat' = [feat EXCEPT ![p].stage = "end"]
  /\ UNCHANGED <<menu, work>>
  /\ UNCHANGED <<cacheVars, manVars, bootVars>>

\* if (bootstrapResult?.devCommand) { the startDev prompt; if (startDev) ... }
FeatDevPrompt(p) ==
  /\ feat[p].stage = "devPrompt"
  /\ IF ~Falsy(feat[p].devCommand)
     THEN \E startDev \in BOOLEAN :
            feat' = [feat EXCEPT ![p].stage = IF startDev THEN "dev" ELSE "end",
                                 ![p].startDev = startDev]
     ELSE feat' = [feat EXCEPT ![p].stage = "end"]
  /\ UNCHANGED <<menu, work>>
  /\ UNCHANGED <<cacheVars, manVars, bootVars>>

\* await launchDevServer(bootstrapResult.devCommand, ...): the command runs to its end;
\* its failure is caught and printed
FeatDevServer(p) ==
  /\ feat[p].stage = "dev"
  /\ \E outcome \in StepOutcomes :
       feat' = [feat EXCEPT ![p].stage = "end", ![p].launched = TRUE,
                            ![p].devOutcome = outcome]
  /\ UNCHANGED <<menu, work>>
  /\ UNCHANGED <<cacheVars, manVars, bootVars>>

\* The flow returns to the menu; the next one is asked for a destination that does
\* not exist yet
FeatEnd(p) ==
  /\ feat[p].stage = "end"
  /\ feat' = [feat EXCEPT ![p] = IdleFeat]
  /\ menu' = [menu EXCEPT ![p] = IdleMenu]
  /\ work' = NoDir
  /\ UNCHANGED <<cacheVars, manVars, bootVars>>

\* The bootstrap configurations and destinations of the model
DeployPool ==
  {[kind |-> "null", name |-> Undef, command |-> Undef],
   [kind |-> "string", name |-> Undef, command |-> "anchor deploy"],
   [kind |-> "object", name |-> "Build program", command |-> "anchor build"],
   [kind |-> "object", name |-> Undef, command |-> "npm run seed"]}

\* bootstrap.packageManager: not set, a known manager, or one the tables do not have
Preferences == {Undef, "pnpm", "deno"}

BootstrapConfigs ==
  {NoBootstrap} \cup
  {[packageManager |-> pm, installCommand |-> ic, deployCommands |-> dc, devCommand |-> Undef] :
     pm \in Preferences, ic \in {Undef, "make"}, dc \in SeqsUpTo(DeployPool, MaxDeploy)}

\* Every combination of the probed files; what package.json is matters when it is there
Destinations ==
  {[files |-> files, pkg |-> "plain"] : files \in SUBSET (DestFiles \ {"package.json"})} \cup
  {[files |-> files \cup {"package.json"}, pkg |-> pkg] :
     files \in SUBSET (DestFiles \ {"package.json"}),
     pkg \in {"unreadable", "plain", "withDev"}}

\* A caller runs bootstrapTemplateDestination(template, destination)
BootstrapCall ==
  /\ boot.status = "idle"
  /\ \E bootstrap \in BootstrapConfigs, dest \in Destinations : BootstrapBegin(bootstrap, dest)

InitBoot ==
  /\ cache = [n \in CacheNames |-> NoDir]
  /\ nfetch = 0
  /\ pc = [p \in Procs |-> "idle"]
  /\ call = [p \in Procs |-> IdleCall]
  /\ batch = [p \in Procs |-> IdleBatch]
  /\ userFile = MissingFile
  /\ baseFile = MissingFile
  /\ recon = IdleRecon
  /\ boot = IdleBoot
  /\ menu = [p \in Procs |-> IdleMenu]
  /\ feat = [p \in Procs |-> IdleFeat]
  /\ work = NoDir

NextBoot ==
  \/ BootstrapCall
  \/ \E outcome \in StepOutcomes : RunStep(outcome)
  \/ BootstrapReturn
  \/ BootstrapDone

SpecBoot == InitBoot /\ [][NextBoot]_vars

(***************************************************************************)
(* The reconciliation specification: the reconciler applied to every pair  *)
(* of manifest files of the pools.                                         *)
(***************************************************************************)
\* A document whose `templates` is not an array
NotArrayDoc == [state |-> "ok", version |-> 1, arr |-> FALSE, templates |-> <<>>]

BaseFiles ==
  {MissingFile, CorruptFile, NotArrayDoc} \cup
  {Doc(v, s) : v \in {NoVersion, 2}, s \in SeqsUpTo(BasePool, MaxEntries)}

UserFiles ==
  {MissingFile, CorruptFile} \cup
  {Doc(v, s) : v \in {NoVersion, 1, 3}, s \in DistinctSeqs(UserPool, MaxEntries)}

InitRecon ==
  /\ cache = [n \in CacheNames |-> NoDir]
  /\ nfetch = 0
  /\ pc = [p \in Procs |-> "idle"]
  /\ call = [p \in Procs |-> IdleCall]
  /\ batch = [p \in Procs |-> IdleBatch]
  /\ userFile \in UserFiles
  /\ baseFile \in BaseFiles
  /\ recon = IdleRecon
  /\ boot = IdleBoot
  /\ menu = [p \in Procs |-> IdleMenu]
  /\ feat = [p \in Procs |-> IdleFeat]
  /\ work = NoDir

NextRecon ==
  \/ Reconcile
  \/ InitConfig

SpecRecon == InitRecon /\ [][NextRecon]_vars

(***************************************************************************)
(* The failing reconciliation: the reconciler applied to manifest files    *)
(* that cannot be read, that are not documents, and whose entries make the *)
(* merge throw.                                                            *)
(***************************************************************************)
ErrUserFiles ==
  {MissingFile, CorruptFile, NullFile, PrimitiveFile} \cup
  {Doc(v, s) : v \in {NoVersion, 3}, s \in DistinctSeqs({TplMine, TplLoose, NullEntry}, MaxEntries)}

ErrBaseFiles ==
  {MissingFile, CorruptFile, NullFile, PrimitiveFile, NotArrayDoc} \cup
  {Doc(2, s) : s \in SeqsUpTo({TplWeb, TplNameless, NullEntry}, MaxEntries)}

InitReconErr ==
  /\ cache = [n \in CacheNames |-> NoDir]
  /\ nfetch = 0
  /\ pc = [p \in Procs |-> "idle"]
  /\ call = [p \in Procs |-> IdleCall]
  /\ batch = [p \in Procs |-> IdleBatch]
  /\ userFile \in ErrUserFiles
  /\ baseFile \in ErrBaseFiles
  /\ recon = IdleRecon
  /\ boot = IdleBoot
  /\ menu = [p \in Procs |-> IdleMenu]
  /\ feat = [p \in Procs |-> IdleFeat]
  /\ work = NoDir

SpecReconErr == InitReconErr /\ [][NextRecon]_vars

(***************************************************************************)
(* The cache specification: one invocation of the tool working on the      *)
(* cache, starting from an empty cache root.                               *)
(***************************************************************************)
InitCache ==
  /\ cache = [n \in CacheNames |-> NoDir]
  /\ nfetch = 0
  /\ pc = [p \in Procs |-> "idle"]
  /\ call = [p \in Procs |-> IdleCall]
  /\ batch = [p \in Procs |-> IdleBatch]
  /\ userFile \in {Doc(1, s) : s \in DistinctSeqs(BatchPool, MaxEntries)}
  /\ baseFile = MissingFile
  /\ recon = IdleRecon
  /\ boot = IdleBoot
  /\ menu = [p \in Procs |-> IdleMenu]
  /\ feat = [p \in Procs |-> IdleFeat]
  /\ work = NoDir

NextCache ==
  \/ EnsureCall(1)
  \/ EnsureStep(1)
  \/ EnsureReturn(1)
  \/ RefreshBegin(1)
  \/ RefreshEnsure(1)
  \/ RefreshCollect(1)
  \/ RefreshReturn(1)
  \/ RefreshDone(1)

SpecCache == InitCache /\ [][NextCache]_vars

(***************************************************************************)
(* The cache race: two invocations of the tool working on one cache root,  *)
(* each making one forced refresh, the steps of one interleaved with the   *)
(* steps of the other.                                                     *)
(***************************************************************************)
\* The templates the invocations refresh: a bundled one and a remote one
RacePool == {TplBasic, TplWeb}

\* A flow of the interactive layer calls ensureTemplateCache(template, {force: true})
ForcedCall(p) ==
  /\ ~batch[p].active
  /\ nfetch < MaxFetches
  /\ \E t \in RacePool : EnsureBegin(p, t, TRUE, "direct")
  /\ UNCHANGED batch
  /\ UNCHANGED <<manVars, bootVars, flowVars>>

InitRace ==
  /\ cache = [n \in CacheNames |-> NoDir]
  /\ nfetch = 0
  /\ pc = [p \in Procs |-> "idle"]
  /\ call = [p \in Procs |-> IdleCall]
  /\ batch = [p \in Procs |-> IdleBatch]
  /\ userFile = Doc(1, <<TplBasic, TplWeb>>)
  /\ baseFile = MissingFile
  /\ recon = IdleRecon
  /\ boot = IdleBoot
  /\ menu = [p \in Procs |-> IdleMenu]
  /\ feat = [p \in Procs |-> IdleFeat]
  /\ work = NoDir

NextRace ==
  \E p \in Procs :
    \/ ForcedCall(p)
    \/ EnsureStep(p)

SpecRace == InitRace /\ [][NextRace]_vars

(***************************************************************************)
(* The stale cache: one invocation of the tool on a cache root that holds  *)
(* the copies of two earlier fetches, with manifest entries that were      *)
(* edited since: their local path is gone, their repo is not owner/name.   *)
(***************************************************************************)
\* The entry of `basic` pointing at a local path the bundle does not have
TplBasicGone == Ent("basic", "Basic", "local", Undef, Undef, Undef, "legacy", Undef, Undef)

\* The entry of `web` with a repo that is not an owner/name identifier
TplWebBad == Ent("web", "Web", "github", "not a repo", "main", Undef, Undef, Undef, Undef)

StalePool == {TplBasic, TplWeb, TplBasicGone, TplWebBad}

\* The cache after fetch 1 (basic) and fetch 2 (web)
StaleCaches ==
  {[n \in CacheNames |-> IF n = "basic" THEN FreshDir(tb, 1)
                         ELSE IF n = "web" THEN FreshDir(tw, 2)
                         ELSE NoDir] : tb \in Trees, tw \in Trees}

\* A flow of the interactive layer calls ensureTemplateCache on an entry of the pool
StaleCall(p) ==
  /\ ~batch[p].active
  /\ nfetch < MaxFetches + 2
  /\ \E t \in StalePool, force \in BOOLEAN : EnsureBegin(p, t, force, "direct")
  /\ UNCHANGED batch
  /\ UNCHANGED <<manVars, bootVars, flowVars>>

InitStale ==
  /\ cache \in StaleCaches
  /\ nfetch = 2
  /\ pc = [p \in Procs |-> "idle"]
  /\ call = [p \in Procs |-> IdleCall]
  /\ batch = [p \in Procs |-> IdleBatch]
  /\ userFile = Doc(1, <<TplBasicGone, TplWebBad>>)
  /\ baseFile = MissingFile
  /\ recon = IdleRecon
  /\ boot = IdleBoot
  /\ menu = [p \in Procs |-> IdleMenu]
  /\ feat = [p \in Procs |-> IdleFeat]
  /\ work = NoDir

NextStale ==
  \/ StaleCall(1)
  \/ EnsureStep(1)
  \/ EnsureReturn(1)

SpecStale == InitStale /\ [][NextStale]_vars

(***************************************************************************)
(* The pull specification: one invocation of the tool in the templates     *)
(* menu, loading the user manifest and pulling templates into it, over     *)
(* every kind of user manifest file; the tool is started again in between. *)
(***************************************************************************)
PullUserFiles ==
  {MissingFile, CorruptFile, NullFile, PrimitiveFile, BareDoc, NotArrayDoc} \cup
  {Doc(v, s) : v \in {NoVersion, 3}, s \in DistinctSeqs({TplMine, TplWebEdited}, MaxEntries)}

\* Default manifests: none, and one that repeats a name
PullBaseFiles == {MissingFile, Doc(2, <<TplWeb, TplWebV2>>)}

InitPull ==
  /\ cache = [n \in CacheNames |-> NoDir]
  /\ nfetch = 0
  /\ pc = [p \in Procs |-> "idle"]
  /\ call = [p \in Procs |-> IdleCall]
  /\ batch = [p \in Procs |-> IdleBatch]
  /\ userFile \in PullUserFiles
  /\ baseFile \in PullBaseFiles
  /\ recon = IdleRecon
  /\ boot = IdleBoot
  /\ menu = [p \in Procs |-> IdleMenu]
  /\ feat = [p \in Procs |-> IdleFeat]
  /\ work = NoDir

NextPull ==
  \/ ToolStart
  \/ MenuLoad(1)
  \/ MenuBack(1)
  \/ PullSave(1)
  \/ PullEnsure(1)
  \/ EnsureRemove(1)
  \/ CloneCheck(1)
  \/ CloneExec(1)
  \/ CloneCopy(1)
  \/ CloneCleanup(1)
  \/ WriteMeta(1)
  \/ PullEnd(1)

SpecPull == InitPull /\ [][NextPull]_vars

(***************************************************************************)
(* The manifest race: two invocations of the tool on one user manifest,    *)
(* each starting (reconciliation) and pulling a template, the read and the *)
(* save of one interleaved with those of the other.                        *)
(***************************************************************************)
InitManRace ==
  /\ cache = [n \in CacheNames |-> NoDir]
  /\ nfetch = 0
  /\ pc = [p \in Procs |-> "idle"]
  /\ call = [p \in Procs |-> IdleCall]
  /\ batch = [p \in Procs |-> IdleBatch]
  /\ userFile \in {MissingFile, Doc(NoVersion, <<>>), Doc(1, <<TplWebEdited>>)}
  /\ baseFile \in {MissingFile, Doc(2, <<TplWebV2>>)}
  /\ recon = IdleRecon
  /\ boot = IdleBoot
  /\ menu = [p \in Procs |-> IdleMenu]
  /\ feat = [p \in Procs |-> IdleFeat]
  /\ work = NoDir

NextManRace ==
  \E p \in Procs :
    \/ ReconcileLoad(p)
    \/ ReconcileSave(p)
    \/ MenuLoad(p)
    \/ MenuBack(p)
    \/ PullSave(p)

SpecManRace == InitManRace /\ [][NextManRace]_vars

(***************************************************************************)
(* The featured specification: one invocation of the tool materializing    *)
(* featured templates: cache, workspace copy, bootstrap, dev server.       *)
(***************************************************************************)
\* An entry with "featured": true
Featured(t) == [t EXCEPT !.featured = "true"]

FeaturedPool == {Featured(TplBasic), Featured(TplWeb), TplMine}

InitFeatured ==
  /\ cache = [n \in CacheNames |-> NoDir]
  /\ nfetch = 0
  /\ pc = [p \in Procs |-> "idle"]
  /\ call = [p \in Procs |-> IdleCall]
  /\ batch = [p \in Procs |-> IdleBatch]
  /\ userFile \in {Doc(1, s) : s \in DistinctSeqs(FeaturedPool, MaxEntries)}
  /\ baseFile = MissingFile
  /\ recon = IdleRecon
  /\ boot = IdleBoot
  /\ menu = [p \in Procs |-> IdleMenu]
  /\ feat = [p \in Procs |-> IdleFeat]
  /\ work = NoDir

NextFeatured ==
  \/ ToolStart
  \/ MenuLoad(1)
  \/ FeatPick(1)
  \/ FeatEnsure(1)
  \/ EnsureStep(1)
  \/ FeatCached(1)
  \/ FeatCopy(1)
  \/ FeatSidecar(1)
  \/ FeatBootPrompt(1)
  \/ FeatBootstrap(1)
  \/ \E outcome \in StepOutcomes : RunStep(outcome)
  \/ BootstrapReturn
  \/ FeatBooted(1)
  \/ FeatDevPrompt(1)
  \/ FeatDevServer(1)
  \/ FeatEnd(1)

SpecFeatured == InitFeatured /\ [][NextFeatured]_vars

(***************************************************************************)
(* The workspace specification: the featured flow on a template whose      *)
(* bootstrap has an install step, a deploy step and a dev command, with    *)
(* another program creating the destination directory after the prompt has *)
(* validated it and before the copy.                                       *)
(***************************************************************************)
\* The entry of `basic` with an install command, a deploy command and a dev command
TplBasicDeploy == Ent("basic", "Basic", "local", Undef, Undef, Undef, "basic", "B3", Undef)

\* The content of a file the user (not a fetch) wrote
UserContent == MaxFetches + 1

\* The destination directories another program can have made
UserDirs ==
  {[exists |-> TRUE,
    files |-> [f \in FileNames |-> IF f \in own THEN UserContent ELSE 0],
    meta |-> IF sidecar THEN UserContent ELSE 0] : own \in SUBSET FileNames, sidecar \in BOOLEAN}

\* Between the validate of the targetDir prompt (fs.pathExists found nothing) and the
\* fs.copy, the destination directory is created
WorkAppears(p) ==
  /\ feat[p].stage = "copy"
  /\ ~work.exists
  /\ work' \in UserDirs
  /\ UNCHANGED <<menu, feat>>
  /\ UNCHANGED <<cacheVars, manVars, bootVars>>

InitWorkspace ==
  /\ cache = [n \in CacheNames |-> NoDir]
  /\ nfetch = 0
  /\ pc = [p \in Procs |-> "idle"]
  /\ call = [p \in Procs |-> IdleCall]
  /\ batch = [p \in Procs |-> IdleBatch]
  /\ userFile = Doc(1, <<Featured(TplBasicDeploy), Featured(TplWeb)>>)
  /\ baseFile = MissingFile
  /\ recon = IdleRecon
  /\ boot = IdleBoot
  /\ menu = [p \in Procs |-> IdleMenu]
  /\ feat = [p \in Procs |-> IdleFeat]
  /\ work = NoDir

NextWorkspace ==
  \/ NextFeatured
  \/ WorkAppears(1)

SpecWorkspace == InitWorkspace /\ [][NextWorkspace]_vars

(***************************************************************************)
(* Properties of the template cache (SpecCache).                           *)
(***************************************************************************)
\* The call of p has ended (returned or thrown) and its caller has not resumed yet.
Ended(p) == pc[p] = "done"

CacheDirOf(p) == cache[call[p].tpl.name]

\* C1: after a successful ensureTemplateCache(template, {force: true}) the cache
\* directory holds exactly the files of that one fetch and its sidecar, whatever the
\* directory held before and however the best-effort removal went.
C1_ForcedRefreshReplaces ==
  \A p \in Procs :
    (Ended(p) /\ call[p].force /\ call[p].result = "ok")
      => CacheDirOf(p) = FreshDir(call[p].tree, call[p].gen)

\* The errors of the fetch itself: clone failure, copy failure, sidecar write failure.
FetchErrors ==
  {DownloadErr(Err("git clone failed")), DownloadErr(Err("copy failed")),
   Err("copy failed"), Err("metadata write failed")}

\* C2: when ensureTemplateCache fails on a fetch error, the cache directory does not
\* exist afterwards (so the next unforced call fetches again).
C2_FetchErrorLeavesNoDirectory ==
  \A p \in Procs :
    (Ended(p) /\ call[p].result = "error" /\ call[p].error \in FetchErrors)
      => ~CacheDirOf(p).exists

\* C3: an unforced call on an existing cache directory returns its path, invokes
\* neither fetcher and leaves the directory as it was; so does the call after it.
C3_CacheHitIdempotent ==
  \A p \in Procs :
    (Ended(p) /\ ~call[p].force /\ call[p].before.exists)
      => /\ call[p].result = "ok"
         /\ call[p].path = TargetDir(call[p].tpl)
         /\ nfetch = call[p].fetchesBefore
         /\ call[p].gen = 0
         /\ CacheDirOf(p) = call[p].before

\* C3's case: an unforced call answered from a directory an earlier fetch populated.
C3_Witness ==
  \E p \in Procs :
    /\ Ended(p) /\ ~call[p].force /\ call[p].hit
    /\ nfetch > 0
    /\ CacheDirOf(p).meta > 0
    /\ call[p].result = "ok"

\* results is a prefix of later
IsPrefix(results, later) ==
  /\ Len(results) <= Len(later)
  /\ \A j \in 1..Len(results) : later[j] = results[j]

\* The results of a batch, so far: one per entry handled, in manifest order, each of
\* one of the two shapes.
BatchResultsOk(b) ==
  /\ Len(b.results) = b.i - 1
  /\ Len(b.results) <= Len(b.templates)
  /\ \A j \in 1..Len(b.results) :
       /\ b.results[j].name = b.templates[j].name
       /\ \/ /\ b.results[j].status = "ok"
             /\ b.results[j].path = TargetDir(b.templates[j])
             /\ b.results[j].error = NoError
          \/ /\ b.results[j].status = "error"
             /\ b.results[j].path = Undef
             /\ b.results[j].error # NoError
  /\ b.returned => Len(b.results) = Len(b.templates)

C10_MissingSubdirLeavesNoDirectory ==
  \A p \in Procs :
    (Ended(p) /\ call[p].error.msg = "Subdirectory not found in cloned repository")
      => /\ call[p].result = "error"
         /\ call[p].error.wrap
         /\ ~CacheDirOf(p).exists

\* The call of p is past the try/finally of cloneTemplateFromGitHub.
PastCleanup(p) == pc[p] \in {"meta", "done"}

\* C11: once fs.mkdtemp has made the temporary clone directory, its removal has been
\* attempted by the time cloneTemplateFromGitHub returns or throws, on every path; and
\* the removal, whether it worked or not, leaves the outcome as it was: the pending
\* fetch error is the one thrown, and a fetch without error goes on to the sidecar.
C11_TmpDirCleanupAlwaysAttempted ==
  /\ [](\A p \in Procs :
         (PastCleanup(p) /\ call[p].tmp # "none") => call[p].tmp \in {"removed", "leaked"})
  /\ [][\A p \in Procs :
          (pc[p] = "cleanup" /\ pc'[p] # "cleanup")
            => /\ call'[p].error = call[p].error
               /\ call'[p].tmp \in {"removed", "leaked"}
               /\ IF call[p].error = NoError
                  THEN pc'[p] = "meta" /\ call'[p].result = "none"
                  ELSE pc'[p] = "done" /\ call'[p].result = "error"]_vars

\* C11's case: the copy out of the clone failed, the removal of the temporary directory
\* failed too, and the call threw the copy error.
C11_Witness ==
  \E p \in Procs :
    /\ Ended(p) /\ call[p].result = "error"
    /\ call[p].tmp = "leaked"
    /\ call[p].error = DownloadErr(Err("copy failed"))

(***************************************************************************)
(* Properties of the stale cache (SpecStale).                              *)
(***************************************************************************)
\* The errors of the validation: the repo check and the local path check.
ValidationErrors ==
  {Err("Invalid GitHub repository identifier"), Err("Local template not found")}

\* Something of the copy the cache held when the call of p began is still there.
PreviousCopyLeft(p) ==
  \/ \E f \in FileNames : call[p].before.files[f] # 0
                            /\ CacheDirOf(p).files[f] = call[p].before.files[f]
  \/ call[p].before.meta # 0 /\ CacheDirOf(p).meta = call[p].before.meta

\* C28: the cache directory is removed before the entry is validated and before
\* anything is fetched: after a forced refresh (or a miss) that fails, for any
\* reason, nothing of the copy cached before is left; when it fails at the
\* validation the directory does not exist.
C28_FailedRefreshDropsCachedCopy ==
  \A p \in Procs :
    (Ended(p) /\ call[p].result = "error")
      => /\ ~PreviousCopyLeft(p)
         /\ call[p].error \in ValidationErrors => ~CacheDirOf(p).exists

\* C28's case: a forced refresh of a cached template failed at the validation and
\* the directory is gone.
C28_Witness ==
  \E p \in Procs :
    /\ Ended(p) /\ call[p].force /\ call[p].result = "error"
    /\ call[p].error \in ValidationErrors
    /\ call[p].before.exists /\ ~CacheDirOf(p).exists

(***************************************************************************)
(* Properties of the cache race (SpecRace).                                *)
(***************************************************************************)
\* C22: nothing keeps two forced refreshes of one template apart.  A forced refresh
\* whose removal worked and into whose directory no other invocation wrote or removed
\* while it fetched returns a directory holding its one fetch and its sidecar; two that
\* overlap (remove / remove / copy / copy) can both return with the directory holding
\* files of both fetches (C22_Witness).
C22_RefreshAloneReplaces ==
  [][\A p \in Procs :
       (/\ pc[p] # "done" /\ pc'[p] = "done"
        /\ call'[p].force /\ call'[p].result = "ok"
        /\ call'[p].removed /\ ~call'[p].raced)
         => cache'[call'[p].tpl.name] = FreshDir(call'[p].tree, call'[p].gen)]_vars

\* C22's case: both invocations removed the directory, both fetched, both returned
\* its path, and the directory holds a file of each fetch.
C22_Witness ==
  \E p, q \in Procs :
    /\ p # q
    /\ Ended(p) /\ Ended(q)
    /\ call[p].tpl.name = call[q].tpl.name
    /\ call[p].force /\ call[q].force
    /\ call[p].result = "ok" /\ call[q].result = "ok"
    /\ call[p].removed /\ call[q].removed
    /\ \E f, g \in FileNames :
         /\ CacheDirOf(p).files[f] = call[p].gen
         /\ CacheDirOf(p).files[g] = call[q].gen

(***************************************************************************)
(* Properties of the reconciliation (SpecRecon).                           *)
(***************************************************************************)
\* The default manifest can be read and has a templates array.
BaseReadable == baseFile.state = "ok" /\ baseFile.arr

\* The entries of the default manifest, none when it cannot be read.
BaseEntries == IF BaseReadable THEN baseFile.templates ELSE <<>>

NamesIn(templates) == {templates[i].name : i \in 1..Len(templates)}

\* The entries the user manifest had when the last reconciliation began, and has now.
UserBefore == recon.userBefore.templates

UserAfter == userFile.templates

\* Exactly one entry of templates has this name.
NamedOnce(templates, name) ==
  Cardinality({i \in 1..Len(templates) : templates[i].name = name}) = 1

EntryNamed(templates, name) ==
  templates[CHOOSE i \in 1..Len(templates) : templates[i].name = name]

\* C4: every user entry whose name the default manifest does not have is still in the
\* user manifest, field for field, after reconciliation.
C4_UserOnlyEntriesKept ==
  recon.done =>
    \A i \in 1..Len(UserBefore) :
      UserBefore[i].name \notin NamesIn(BaseEntries)
        => \E j \in 1..Len(UserAfter) : UserAfter[j] = UserBefore[i]

\* C4's case: a reconciliation that saved a manifest holding a user-only entry and
\* an entry appended from the default manifest.
C4_Witness ==
  /\ recon.done /\ recon.outcome = "saved"
  /\ \E i \in 1..Len(UserBefore) : UserBefore[i].name \notin NamesIn(BaseEntries)
  /\ Len(UserAfter) > Len(UserBefore)

C7_UnreadableManifestUntouched ==
  (/\ recon.done
   /\ \/ recon.userBefore.state \in {"missing", "corrupt"}
      \/ baseFile.state \in {"missing", "corrupt"})
    => userFile = recon.userBefore

\* The last reconciliation left a user manifest that reflects its merge: it saved,
\* or it found nothing to change.
Settled == recon.done /\ recon.outcome \in {"saved", "unchanged"}

\* The names both manifests have, once each.
SharedNames ==
  {n \in NamesIn(UserBefore) \cap NamesIn(BaseEntries) :
     ~Falsy(n) /\ NamedOnce(UserBefore, n) /\ NamedOnce(BaseEntries, n)}

\* C8 as stated: for an entry in both manifests, every reconciled field that differed
\* has the default's value afterwards, also when the default does not define it.
C8_DefaultWinsEveryDifference ==
  Settled =>
    \A n \in SharedNames :
      \A k \in 1..Len(ReconKeys) :
        LET key == ReconKeys[k]
        IN EntryNamed(UserBefore, n)[key] # EntryNamed(BaseEntries, n)[key]
             => EntryNamed(UserAfter, n)[key] = EntryNamed(BaseEntries, n)[key]

\* C8, amended: for an entry in both manifests, after a reconciliation that saved or
\* had nothing to change, every reconciled field the default entry defines has the
\* default's value (for bootstrap: the default's JSON text, an absent bootstrap
\* counting as null), and every field the default entry does not define is the user's.
C8_DefinedDefaultFieldsWin ==
  Settled =>
    \A n \in SharedNames :
      /\ NamedOnce(UserAfter, n)
      /\ \A k \in 1..Len(ReconKeys) :
           LET key == ReconKeys[k]
               u == EntryNamed(UserBefore, n)
               d == EntryNamed(BaseEntries, n)
               e == EntryNamed(UserAfter, n)
           IN IF d[key] = Undef THEN e[key] = u[key]
              ELSE IF key = "bootstrap"
              THEN StringifyJSON(Nullish(e[key], Null)) = StringifyJSON(Nullish(d[key], Null))
              ELSE e[key] = d[key]

\* C8's case: the user retargeted ref and kept a subdir the new default no longer
\* defines; the saved entry has the default's ref and the user's subdir.
C8_Witness ==
  /\ Settled /\ recon.outcome = "saved"
  /\ \E n \in SharedNames :
       /\ EntryNamed(UserBefore, n).ref # EntryNamed(BaseEntries, n).ref
       /\ EntryNamed(UserAfter, n).ref = EntryNamed(BaseEntries, n).ref
       /\ EntryNamed(BaseEntries, n).subdir = Undef
       /\ EntryNamed(UserAfter, n).subdir # Undef

\* The version a manifest file has for the tool, a missing one counted as 1.
VersionIn(file) == IF file.version = NoVersion THEN 1 ELSE file.version

\* C25: a reconciliation that saved left the version max(default version, user
\* version), a missing version counted as 1; and after any reconciliation the version
\* of the user manifest is not lower than it was before.
C25_VersionIsMaxNeverLower ==
  recon.done =>
    /\ recon.outcome = "saved" =>
         /\ VersionIn(userFile) >= VersionIn(baseFile)
         /\ VersionIn(userFile) >= VersionIn(recon.userBefore)
         /\ VersionIn(userFile) \in {VersionIn(baseFile), VersionIn(recon.userBefore)}
    /\ VersionIn(userFile) >= VersionIn(recon.userBefore)

\* The last reconciliation reached its merge: neither manifest made it give up.
Merged == recon.done /\ ~ReconcileAborts(baseFile, recon.userBefore)

\* The merge of the last reconciliation appended a default entry or overwrote a field
\* of a user entry.
EntriesTouched ==
  /\ Merged
  /\ LET loaded == LoadManifest(recon.userBefore)
     IN MergeAll([merged |-> MergedStart(loaded), index |-> IndexOf(MergedStart(loaded)),
                  changed |-> FALSE], baseFile.templates, 1).changed

\* The user manifest of the last reconciliation had a version below the default
\* manifest's, a missing version counted as 1.
VersionLags ==
  /\ Merged
  /\ VersionIn(recon.userBefore) # TargetVersion(baseFile.version,
                                                  LoadManifest(recon.userBefore).version)

\* The last reconciliation called saveTemplateManifest.
Wrote == recon.done /\ recon.outcome \in {"saved", "savefail"}

\* C26 as stated: the reconciliation writes the user manifest only if it appended a
\* default entry or overwrote a field; with no append and no overwrite the file is as
\* it was.
C26_WritesOnlyOnEntryChange ==
  recon.done =>
    /\ Wrote => EntriesTouched
    /\ ~EntriesTouched => userFile = recon.userBefore

\* C26, amended: the reconciliation writes the user manifest only if it appended a
\* default entry, overwrote a field, or found the user version below the default
\* version; with none of the three the file is not written and is as it was.
C26_WritesOnlyOnChange ==
  recon.done =>
    /\ Wrote => (EntriesTouched \/ VersionLags)
    /\ (~EntriesTouched /\ ~VersionLags) => (~Wrote /\ userFile = recon.userBefore)

\* C26's case: both manifests have entries and the merge found nothing to change, so
\* the file was left alone; the amended case is a save made for the version only.
C26_Witness ==
  /\ Merged /\ recon.outcome = "unchanged"
  /\ Len(baseFile.templates) > 0 /\ Len(UserBefore) > 0
  /\ userFile = recon.userBefore

C26_VersionOnlySave ==
  /\ Merged /\ recon.outcome = "saved"
  /\ ~EntriesTouched /\ VersionLags
  /\ userFile # recon.userBefore

\* C27: a reconciliation run right after one that succeeded (it saved, or it found
\* nothing to change) leaves the user manifest file as the first run left it:
\* entries, field values and version.
C27_SecondRunChangesNothing == [][Settled => userFile' = userFile]_vars

\* C27's case: the second of two runs, after a first run that saved a merge of user
\* entries and default entries, found nothing to change.
C27_Witness ==
  /\ recon.done /\ recon.runs = 2 /\ recon.outcome = "unchanged"
  /\ userFile = recon.userBefore
  /\ \E i \in 1..Len(UserAfter) : UserAfter[i].name \notin NamesIn(BaseEntries)
  /\ \E i \in 1..Len(UserAfter) : UserAfter[i].name \in NamesIn(BaseEntries)
  /\ VersionIn(userFile) >= VersionIn(baseFile)

\* C21: reconcileTemplateManifestWithDefaults always returns to initConfig, whatever
\* fails in it; and when it fails (it gives up on a manifest it cannot use, the merge
\* throws, or the save is rejected) the user manifest file is as it was before.
C21_ReconcileFailureLeavesManifest ==
  recon.done =>
    /\ recon.outcome \in {"aborted", "unchanged", "threw", "saved", "savefail"}
    /\ recon.outcome \in {"aborted", "threw", "savefail"} => userFile = recon.userBefore

(***************************************************************************)
(* Properties of the bootstrap (SpecBoot).                                 *)
(***************************************************************************)
\* C6: the steps run one at a time in plan order; a failing step ends the run with
\* Step "<name>" failed: <message of that step>, and no later step is started.
C6_FailFastBootstrap ==
  /\ Len(boot.ran) <= Len(boot.plan)
  /\ \A j \in 1..Len(boot.ran) :
       /\ boot.ran[j].name = boot.plan[j].name
       /\ j < Len(boot.ran) => boot.ran[j].outcome = "exit0"
       /\ boot.ran[j].outcome # "exit0" =>
            /\ boot.status = "threw"
            /\ boot.error = StepFailed(boot.plan[j].name,
                                       StepErrorMessage(boot.plan[j].command, boot.ran[j].outcome))
  /\ boot.status = "threw" =>
       /\ Len(boot.ran) > 0
       /\ boot.ran[Len(boot.ran)].outcome # "exit0"
  /\ boot.status = "returned" => Len(boot.ran) = Len(boot.plan)

\* C6's case: the install step succeeded, the next step failed, a third was planned
\* and never started.
C6_Witness ==
  /\ boot.status = "threw"
  /\ Len(boot.plan) = 3
  /\ boot.plan[1].name = "Install dependencies"
  /\ Len(boot.ran) = 2
  /\ boot.ran[2].outcome = "exit1"
  /\ boot.error.step = boot.plan[2].name

\* The probe the planner is specified to make: the first lockfile present, in the fixed
\* order; npm when there is only a package.json; none without a package.json.
ProbeResult(files) ==
  IF "pnpm-lock.yaml" \in files THEN "pnpm"
  ELSE IF "yarn.lock" \in files THEN "yarn"
  ELSE IF "bun.lockb" \in files THEN "bun"
  ELSE IF "package-lock.json" \in files THEN "npm"
  ELSE IF "package.json" \in files THEN "npm"
  ELSE Null

\* The destination holds yarn.lock and package.json and nothing else that is probed.
OnlyYarn == boot.dest.files = {"yarn.lock", "package.json"}

\* C14 as stated: whatever the entry's bootstrap configuration, the detected manager is
\* the one of the first lockfile present (npm with only a package.json, none without
\* one), and a directory holding only yarn.lock and package.json gets the install
\* command 'yarn install'.
C14_DetectionByLockfileOrder ==
  boot.status # "idle" =>
    /\ boot.packageManager = ProbeResult(boot.dest.files)
    /\ OnlyYarn => /\ boot.plan # <<>>
                   /\ boot.plan[1].command = "yarn install"

\* C14, amended: an entry whose bootstrap names a package manager gets that manager
\* without any probe; otherwise the probe order decides, for every combination of
\* files; and the directory with only yarn.lock and package.json gets 'yarn install' as
\* its install step when that package.json can be read and the entry names neither a
\* manager nor an install command.
C14_DetectionUnlessPreferred ==
  boot.status # "idle" =>
    /\ IF ~Falsy(boot.bootstrap.packageManager)
       THEN boot.packageManager = boot.bootstrap.packageManager
       ELSE boot.packageManager = ProbeResult(boot.dest.files)
    /\ (/\ OnlyYarn
        /\ boot.dest.pkg # "unreadable"
        /\ Falsy(boot.bootstrap.packageManager)
        /\ Falsy(boot.bootstrap.installCommand))
         => /\ boot.plan # <<>>
            /\ boot.plan[1] = [name |-> "Install dependencies", command |-> "yarn install"]

\* C14's case: only yarn.lock and a readable package.json, no bootstrap configuration:
\* yarn is detected and the plan starts with yarn install.
C14_Witness ==
  /\ boot.status = "running"
  /\ OnlyYarn
  /\ boot.bootstrap = NoBootstrap
  /\ boot.packageManager = "yarn"
  /\ boot.plan = <<[name |-> "Install dependencies", command |-> "yarn install"]>>

\* The deploy entries that make a step (the falsy ones are skipped).
DeployCount(bootstrap) ==
  Cardinality({i \in 1..Len(bootstrap.deployCommands) : bootstrap.deployCommands[i].kind # "null"})

\* The install command the plan is specified to have, null for none.
ExpectedInstall ==
  IF ~Falsy(boot.bootstrap.installCommand) THEN boot.bootstrap.installCommand
  ELSE IF /\ "package.json" \in boot.dest.files
          /\ boot.dest.pkg # "unreadable"
          /\ boot.packageManager # Null
  THEN InstallCommandOf(boot.packageManager)
  ELSE Null

\* C15: the install step is bootstrap.installCommand when given, else the canonical
\* install command of the detected manager when package.json is readable and a manager
\* was detected, else there is none; when there is one it is the first step and the
\* only install step, and the deploy steps follow it.
C15_InstallStepRule ==
  boot.status # "idle" =>
    IF ExpectedInstall # Null
    THEN /\ Len(boot.plan) = 1 + DeployCount(boot.bootstrap)
         /\ boot.plan[1] = [name |-> "Install dependencies", command |-> ExpectedInstall]
         /\ \A j \in 2..Len(boot.plan) : boot.plan[j].name # "Install dependencies"
    ELSE /\ Len(boot.plan) = DeployCount(boot.bootstrap)
         /\ \A j \in 1..Len(boot.plan) : boot.plan[j].name # "Install dependencies"

\* C15's case: no install command given, pnpm detected from its lockfile, and the
\* synthesized install step ahead of two deploy steps.
C15_Witness ==
  /\ boot.status = "running"
  /\ Falsy(boot.bootstrap.installCommand)
  /\ Falsy(boot.bootstrap.packageManager)
  /\ boot.packageManager = "pnpm"
  /\ Len(boot.plan) = 3
  /\ boot.plan[1].command = "pnpm install"

\* C18: each started step settles with one outcome; it resolves exactly when the child
\* exits with code 0; and when it fails, on a non-zero exit code or on a spawn failure,
\* the error names the step and the exit code.
C18_StepErrorNamesStepAndCode ==
  \A j \in 1..Len(boot.ran) :
    /\ boot.ran[j].outcome \in StepOutcomes
    /\ (boot.ran[j].outcome = "exit0") <=> (j < Len(boot.ran) \/ boot.status # "threw")
    /\ boot.ran[j].outcome # "exit0" =>
         /\ boot.error.step = boot.plan[j].name
         /\ boot.error.message.kind = "Command failed"
         /\ boot.error.message.code # Undef

(***************************************************************************)
(* Properties of the manifest store and the pull flow (SpecPull).           *)
(***************************************************************************)
\* C12: loadTemplateManifest never raises; for a missing file, a file that is not
\* JSON, and a JSON null or primitive it returns {version: 1, templates: []}; for a
\* document it returns the document's version (1 when it has none) and its templates
\* (the empty array when they are not an array).
C12_LoadNeverRaises ==
  \A p \in Procs :
    menu[p].stage # "idle" =>
      /\ ~menu[p].loadRaised
      /\ menu[p].file.state \in {"missing", "corrupt", "null", "primitive"}
           => menu[p].manifest = [version |-> 1, templates |-> <<>>]
      /\ menu[p].file.state = "ok"
           => /\ menu[p].manifest.version =
                   (IF menu[p].file.version = NoVersion THEN 1 ELSE menu[p].file.version)
              /\ menu[p].manifest.templates =
                   (IF menu[p].file.arr THEN menu[p].file.templates ELSE <<>>)

\* C12's case: the user manifest file holds JSON null, and the menu got the empty
\* manifest from loadTemplateManifest.
C12_Witness ==
  \E p \in Procs :
    /\ menu[p].stage = "menu"
    /\ menu[p].file = NullFile
    /\ menu[p].manifest = EmptyManifest

\* C13: when the write of saveTemplateManifest fails, the flow that saved goes on: the
\* pull-template flow continues to the caching of the template (the reconciliation
\* returns to initConfig).
C13_SaveFailureDoesNotCrash ==
  \A p \in Procs : menu[p].outcome = "saveThrew" => menu[p].stage = "cache"

\* No two entries of templates have the same name.
UniqueNames(templates) ==
  \A i, j \in 1..Len(templates) : i # j => templates[i].name # templates[j].name

\* C19: from a user manifest file whose names are unique, every step (a reconciliation
\* against any default manifest, one that repeats a name included, or a pull-template
\* save) leaves a user manifest whose names are unique.
C19_NamesStayUnique ==
  [][(userFile.state # "missing" /\ UniqueNames(userFile.templates))
       => UniqueNames(userFile'.templates)]_vars

\* C19's case: after a reconciliation against a default manifest that repeats a name
\* had saved, a pull replaced an entry of the same name; the saved manifest has each
\* name once.
C19_Witness ==
  \E p \in Procs :
    /\ menu[p].outcome = "saved"
    /\ PullExisting(menu[p].manifest.templates, menu[p].entry)
    /\ Len(userFile.templates) >= 2
    /\ UniqueNames(userFile.templates)
    /\ recon.outcome = "saved"
    /\ ~UniqueNames(baseFile.templates)

\* C24: a step that reads or writes the manifest (the start of the tool with its
\* reconciliation, the load of the menu, the save of a pull that adds or replaces an
\* entry) leaves every cache directory as it is; a cache directory changes only in a
\* step of an ensureTemplateCache call on the template of that name.
C24_ManifestOpsLeaveCache ==
  [][/\ (userFile' # userFile \/ recon' # recon \/ menu' # menu) => cache' = cache
     /\ \A n \in CacheNames :
          cache'[n] # cache[n]
            => \E p \in Procs : /\ pc[p] \in {"remove", "localCopy", "cloneCopy", "meta"}
                                /\ call[p].tpl.name = n]_vars

\* C24's case: a template was pulled and cached, then the tool started again and its
\* reconciliation rewrote the user manifest; the cache directory is there as fetched.
C24_Witness ==
  /\ recon.runs = 2 /\ recon.done /\ recon.outcome = "saved"
  /\ userFile # recon.userBefore
  /\ \E n \in CacheNames : cache[n].exists /\ cache[n].meta > 0
  /\ \A p \in Procs : menu[p].stage = "idle" /\ pc[p] = "idle"

(***************************************************************************)
(* Properties of the manifest race (SpecManRace).                          *)
(***************************************************************************)
\* Invocation p is at a step that saves the user manifest it read earlier.
Saving(p) == menu[p].stage \in {"recon", "menu"} /\ menu'[p] # menu[p]

\* C23: nothing keeps the read and the save of one invocation together.  A completed
\* save (of a reconciliation or of a pull) made from the user manifest as it still is
\* keeps every name the file has; a save made from a manifest read before another
\* invocation saved replaces that other save, and the entry it added is lost
\* (C23_Witness).
C23_NamesLostOnlyToStaleSave ==
  [][\A p \in Procs :
       (Saving(p) /\ menu[p].file = userFile /\ userFile'.state = "ok")
         => NamesIn(userFile.templates) \subseteq NamesIn(userFile'.templates)]_vars

\* C23's case: one invocation pulled 'mine' and saved; the other, which had read the
\* user manifest before that, finished its reconciliation with a save; the user
\* manifest is a document without 'mine'.
C23_Witness ==
  \E p \in Procs :
    /\ menu[p].outcome = "saved"
    /\ menu[p].entry.name = "mine"
    /\ \A q \in Procs \ {p} : menu[q].stage = "idle"
    /\ recon.done /\ recon.outcome = "saved"
    /\ userFile.state = "ok"
    /\ "mine" \notin NamesIn(userFile.templates)

(***************************************************************************)
(* Properties of the featured flow (SpecFeatured).                          *)
(***************************************************************************)
\* C16: launchDevServer is entered only in a flow whose bootstrapTemplateDestination
\* has returned (not thrown, not still running) with a dev command and whose user
\* answered yes to the start prompt; while the bootstrap runs nothing has been launched.
C16_DevServerOnlyOnConfirmation ==
  \A p \in Procs :
    /\ (feat[p].stage = "dev" \/ feat[p].launched)
         => /\ feat[p].booted = "returned"
            /\ feat[p].startDev
            /\ ~Falsy(feat[p].devCommand)
            /\ boot.status = "idle"
    /\ (feat[p].stage = "boot") => (~feat[p].launched /\ feat[p].devOutcome = "none")

\* C16's case: the bootstrap returned a dev command, the user confirmed, and the dev
\* server ran.
C16_Witness ==
  \E p \in Procs :
    /\ feat[p].launched
    /\ feat[p].booted = "returned"
    /\ Len(feat[p].ran) > 0
    /\ feat[p].startDev

\* C17: in a featured flow the fetch, the cache sidecar write, the workspace copy and
\* the bootstrap happen in that order, each after the one before it has completed, and
\* none after one before it has failed.
C17_MaterializationOrder ==
  \A p \in Procs :
    feat[p].stage # "idle" =>
      \* the sidecar of this fetch is in the cache only once the fetch has succeeded
      /\ (call[p].gen > 0 /\ cache[feat[p].tpl.name].meta = call[p].gen)
           => (pc[p] = "done" /\ call[p].result = "ok")
      \* while ensureTemplateCache runs, nothing is copied and nothing bootstraps
      /\ pc[p] # "idle"
           => (~work.exists /\ ~feat[p].copied /\ boot.status = "idle" /\ feat[p].booted = "no")
      \* the copy starts only from a cache directory fetched and given its sidecar
      /\ (feat[p].stage = "copy" \/ work.exists)
           => (feat[p].cacheOk /\ cache[feat[p].tpl.name].meta = feat[p].gen /\ feat[p].gen > 0)
      /\ feat[p].sidecar => feat[p].copied
      \* the bootstrap starts only after the copy and the workspace sidecar
      /\ (feat[p].stage = "boot" \/ boot.status # "idle" \/ feat[p].booted # "no")
           => (feat[p].cacheOk /\ feat[p].copied /\ feat[p].sidecar)
      \* a failure ends the flow before the later events
      /\ feat[p].failed
           => /\ feat[p].stage = "end"
              /\ boot.status = "idle" /\ feat[p].booted = "no" /\ ~feat[p].launched
              /\ ~feat[p].cacheOk => ~work.exists

\* C17's case: a flow that fetched, copied, wrote the workspace sidecar and ran a
\* bootstrap step.
C17_Witness ==
  \E p \in Procs :
    /\ feat[p].booted = "returned"
    /\ Len(feat[p].ran) > 0
    /\ work = FreshDir(FilesIn(work), feat[p].gen)

\* C20: the directory of every path ensureTemplateCache returns holds the sidecar
\* .lili-template.json (fresh fetch, forced refresh and cache hit), and so does every
\* workspace directory the copy step produced.
C20_ReturnedDirsHaveSidecar ==
  /\ \A p \in Procs :
       (Ended(p) /\ call[p].result = "ok") => (CacheDirOf(p).exists /\ CacheDirOf(p).meta > 0)
  /\ \A p \in Procs : feat[p].copied => work.meta > 0

(***************************************************************************)
(* Properties of the workspace (SpecWorkspace).                            *)
(***************************************************************************)
\* Every step the bootstrap of p ran ended with exit code 0.
AllStepsSucceeded(p) ==
  \A i \in 1..Len(feat[p].ran) : feat[p].ran[i].outcome = "exit0"

\* C29: the dev server is launched only if every bootstrap step succeeded.  When a
\* step failed, the flow holds no dev command, the start prompt is not answered and
\* launchDevServer is not entered; the workspace copy with its sidecar is still there,
\* and so is the record of the steps that ran: those before the failing one succeeded
\* and nothing was run after it.
C29_DevServerOnlyAfterCleanBootstrap ==
  \A p \in Procs :
    /\ (feat[p].stage = "dev" \/ feat[p].launched)
         => (feat[p].booted = "returned" /\ AllStepsSucceeded(p))
    /\ feat[p].booted = "threw"
         => /\ Falsy(feat[p].devCommand)
            /\ ~feat[p].startDev /\ ~feat[p].launched /\ feat[p].stage # "dev"
            /\ work.exists /\ work.meta = feat[p].gen
            /\ Len(feat[p].ran) >= 1
            /\ feat[p].ran[Len(feat[p].ran)].outcome # "exit0"
            /\ \A i \in 1..(Len(feat[p].ran) - 1) : feat[p].ran[i].outcome = "exit0"

\* C29's case: the install step succeeded, the deploy step failed, and the flow ended
\* without a dev server, the workspace left as copied.
C29_Witness ==
  \E p \in Procs :
    /\ feat[p].stage = "end" /\ feat[p].booted = "threw"
    /\ Len(feat[p].ran) = 2
    /\ feat[p].ran[1].outcome = "exit0"
    /\ ~feat[p].launched
    /\ work.exists /\ FilesIn(work) # {}

\* Everything directory d held is in directory e with the same content.
KeepsContent(d, e) ==
  /\ \A f \in FileNames : d.files[f] # 0 => e.files[f] = d.files[f]
  /\ d.meta # 0 => e.meta = d.meta

====
